---- MODULE Spec2Model ----
(***************************************************************************)
(* NeuroNet: the discrete-time spiking network (sim_core.py: LIF neurons,  *)
(* the delayed-current table, reward-modulated plasticity) and the I/O     *)
(* coordinator's readout schedule (core/inout_core.py).                    *)
(*                                                                         *)
(* Numbers.  SimTime is a float of milliseconds; here a time is an integer *)
(* count of 1/TU ms (TU = 2: halves, which floats hold exactly).  Every    *)
(* other float (potential, current, weight, trace, reward) is a fixed-     *)
(* point integer count of 1/FX (FX = 1000), products and quotients rounded *)
(* to the nearest count.                                                   *)
(***************************************************************************)
EXTENDS Integers, Sequences, FiniteSets, TLC

VARIABLES
    neurons,        \* SNN.neurons: id -> [v, ref_until]
    outgoing,       \* SNN.outgoing: pre -> sequence of Synapse (delivery copy)
    pending,        \* SNN._pending_currents: packed key -> summed current
    syn_list,       \* SNN._syn_list: flat sequence of Synapse
    outgoing_idx,   \* SNN._outgoing_idx: pre -> sequence of 0-based indices
    pre_tr,         \* SNN._pre_tr, by synapse position
    post_tr,        \* SNN._post_tr
    elig,           \* SNN._elig
    t_last,         \* SNN._t_last
    clock,          \* the caller's simulation time (the t it passes next)
    dt_run,         \* the driver loop's tick size dt (0: no driver loop)
    calls,          \* number of API calls made so far (bounds the run)
    injected,       \* number of inject_spike calls made so far (bounds the run)
    last,           \* the last call: its arguments and what it returned
    ledger,         \* history: <<bin, neuron>> -> currents added and not yet drained
    spiked_at,      \* history: neuron -> <<time of its latest spike>>, <<>> if none
    outputs,        \* IOCoordinator._outputs: sequence of OutputBinding
    route,          \* IOCoordinator._route: neuron id -> sequence of 0-based indices
    io_clock,       \* the time of the latest coordinator call
    io_calls,       \* number of coordinator calls made so far (bounds the run)
    io_last,        \* the last coordinator call and what it did
    first_spike,    \* history: binding -> <<time of the first spike routed to it>>
    readouts,       \* history: binding -> times of its decoder.readout calls
    inputs,         \* IOCoordinator._inputs: sequence of InputBinding
    enc_last,       \* the last encode_observations call and what it yielded
    tick_pc,        \* Runtime.tick: the phase the tick is at ("idle": between ticks)
    tick_n,         \* number of ticks completed (bounds the run)
    enc_spikes,     \* tick: the encoder's (id, offset) pairs not yet injected
    tick_spikes,    \* tick: `spikes`, the list net.step returned
    tick_action,    \* tick: `action`, what maybe_emit_action returned
    tick_r,         \* tick: `r`
    tick_log,       \* history: the calls the current tick has made, in order
    decoder,        \* FirstToSpikeMoveDecoder: _buf, _t_next and its period
    pops,           \* ProcessingCore._pops: name -> Pop
    order,          \* ProcessingCore._order: sequence of Pop, as declared
    net,            \* ProcessingCore.net: None, or <<the SNN build() made>>
    core_calls,     \* number of ProcessingCore calls made so far (bounds the run)
    core_last,      \* the last ProcessingCore call and whether it raised
    frame,          \* ScreenEnvironment._frame: the one Frame object, cell -> value
    cursor,         \* ScreenEnvironment._cursor_x, _cursor_y
    move_ids,       \* FirstToSpikeMoveDecoder: its up, down, left and right id sets
    env_last        \* history: the reward tail of the latest tick, what it saw

netvars == <<neurons, outgoing, pending, syn_list, outgoing_idx, pre_tr,
             post_tr, elig, t_last, clock, dt_run, calls, injected, last, ledger,
             spiked_at>>

iovars == <<outputs, route, io_clock, io_calls, io_last, first_spike, readouts,
            inputs, enc_last>>

\* the SNN object alone
snnvars == <<neurons, outgoing, pending, syn_list, outgoing_idx, pre_tr, post_tr,
             elig, t_last, calls, last, ledger, spiked_at>>

rtvars == <<tick_pc, tick_n, enc_spikes, tick_spikes, tick_action, tick_r,
            tick_log, decoder>>

corevars == <<pops, order, net, core_calls, core_last>>

envvars == <<frame, cursor, move_ids, env_last>>

vars == <<netvars, iovars, rtvars, corevars, envvars>>

----------------------------------------------------------------------------
(* Representation of floats *)

TU == 2
FX == 1000

Max(a, b) == IF a >= b THEN a ELSE b
Min(a, b) == IF a <= b THEN a ELSE b

\* a / b rounded to the nearest integer (b > 0), halves away from zero
RoundDiv(a, b) ==
    IF a >= 0 THEN (2 * a + b) \div (2 * b)
    ELSE -((2 * (-a) + b) \div (2 * b))

\* int(round(t)) of Python 3 for a time t >= 0: nearest bin, halves to even
BinOf(t) ==
    LET q == t \div TU
        r == t % TU
    IN  IF 2 * r < TU THEN q
        ELSE IF 2 * r > TU THEN q + 1
        ELSE IF q % 2 = 0 THEN q ELSE q + 1

----------------------------------------------------------------------------
(* Configuration *)

\* LIFConfig as the demos build it; potentials in 1/FX, times in ms
v_rest == 0
v_reset == 0
v_thresh == 1000
tau_m_ms == 10
r_m == 1000
tau_ref_ms == 2
RefSentinel == -1000000000

\* PlasticityConfig defaults
eta == 2
tau_trace_ms == 200
tau_elig_ms == 300
A_pre == 1000
A_post == 1000
w_min == -1000
w_max == 1000

KeyShift == 16
KeyMask == 65535

----------------------------------------------------------------------------
(* Bounds of the model *)

NumNeurons == 2     \* neurons of the small network
MaxSyn == 2         \* synapses added in a run
MaxCalls == 5       \* API calls in a run
MaxInject == 2      \* inject_spike calls in a run

----------------------------------------------------------------------------
(* Neuron.step *)

EulerDvNoLeak(v, dt_ms, i_ext) ==
    RoundDiv(dt_ms * r_m * i_ext, tau_m_ms * TU * FX)

\* dv = (dt_ms / tau_m_ms) * (-(v - v_rest) + r_m * i_ext); dt_ms in 1/TU ms
EulerDv(v, dt_ms, i_ext) ==
    RoundDiv(dt_ms * (-(v - v_rest) * FX + r_m * i_ext), tau_m_ms * TU * FX)

NeuronStepThreshAtReset(st, t, dt_ms, i_ext) ==
    IF t < st.ref_until
    THEN [v |-> v_reset, ref_until |-> st.ref_until, spike |-> FALSE]
    ELSE LET v1 == st.v + EulerDv(st.v, dt_ms, i_ext)
         IN  IF v1 >= v_reset
             THEN [v |-> v_reset, ref_until |-> t + tau_ref_ms * TU, spike |-> TRUE]
             ELSE [v |-> v1, ref_until |-> st.ref_until, spike |-> FALSE]

NeuronStepNoRefractory(st, t, dt_ms, i_ext) ==
    LET v1 == st.v + EulerDv(st.v, dt_ms, i_ext)
    IN  IF v1 >= v_thresh
        THEN [v |-> v_reset, ref_until |-> t + tau_ref_ms * TU, spike |-> TRUE]
        ELSE [v |-> v1, ref_until |-> st.ref_until, spike |-> FALSE]

\* Neuron.step: the new state and whether the neuron spikes
NeuronStep(st, t, dt_ms, i_ext) ==
    IF t < st.ref_until
    THEN [v |-> v_reset, ref_until |-> st.ref_until, spike |-> FALSE]
    ELSE LET v1 == st.v + EulerDv(st.v, dt_ms, i_ext)
         IN  IF v1 >= v_thresh
             THEN [v |-> v_reset, ref_until |-> t + tau_ref_ms * TU, spike |-> TRUE]
             ELSE [v |-> v1, ref_until |-> st.ref_until, spike |-> FALSE]

----------------------------------------------------------------------------
(* The pending-current table *)

RECURSIVE BitOr(_, _)
\* a | b on non-negative integers
BitOr(a, b) ==
    IF a = 0 THEN b
    ELSE IF b = 0 THEN a
    ELSE 2 * BitOr(a \div 2, b \div 2) + Max(a % 2, b % 2)

\* (deliver_at_ms << 16) | target
PackKey(time_bin, target) == BitOr(time_bin * 2 ^ KeyShift, target)
\* key >> 16
KeyBin(key) == key \div 2 ^ KeyShift
\* key & 0xFFFF
KeyNid(key) == key % (KeyMask + 1)

AddCurrentOverwrite(p, key, current) ==
    IF key \in DOMAIN p THEN [p EXCEPT ![key] = current] ELSE p @@ (key :> current)

\* self._pending_currents[key] += current (a missing entry counts as 0.0)
AddCurrent(p, key, current) ==
    IF key \in DOMAIN p THEN [p EXCEPT ![key] = @ + current] ELSE p @@ (key :> current)

RECURSIVE SumOver(_, _)
SumOver(p, keys) ==
    IF keys = {} THEN 0
    ELSE LET k == CHOOSE x \in keys : TRUE IN p[k] + SumOver(p, keys \ {k})

DrainKeysNone(p, now_bin) == {}

\* keys_to_delete: every entry whose time bin is now_bin
DrainKeys(p, now_bin) == {k \in DOMAIN p : KeyBin(k) = now_bin}

\* i_in[nid] after the gather loop of step
InputOf(p, now_bin, nid) ==
    SumOver(p, {k \in DOMAIN p : KeyBin(k) = now_bin /\ KeyNid(k) = nid})

DeliverAtNoPromotion(t, delay_ms, now_bin) == BinOf(t + delay_ms)

\* the bin a spike at time t is delivered to over a synapse of this delay
DeliverAt(t, delay_ms, now_bin) ==
    LET deliver_at == BinOf(t + delay_ms)
    IN  IF deliver_at <= now_bin THEN now_bin + 1 ELSE deliver_at

RECURSIVE ScheduleAll(_, _, _, _)
\* the propagation loop: _schedule_current for every synapse of syns, in order
ScheduleAll(p, syns, t, now_bin) ==
    IF syns = <<>> THEN p
    ELSE LET s == Head(syns)
         IN  ScheduleAll(
                 AddCurrent(p, PackKey(DeliverAt(t, s.delay_ms, now_bin), s.post), s.w),
                 Tail(syns), t, now_bin)

----------------------------------------------------------------------------
(* Plasticity *)

DecayFactorTwice(dt, tau_ms) ==
    FX - RoundDiv(FX * 2 * dt, tau_ms * TU)
       + RoundDiv(FX * 2 * dt * 2 * dt, 2 * tau_ms * TU * tau_ms * TU)

\* pow(2.718281828, -dt / tau_ms) in 1/FX, dt in 1/TU ms: the series of
\* exp(-x) to its second-order term (|x| is below 0.1 in every run here)
DecayFactor(dt, tau_ms) ==
    FX - RoundDiv(FX * dt, tau_ms * TU)
       + RoundDiv(FX * dt * dt, 2 * tau_ms * TU * tau_ms * TU)

\* a * b of two fixed-point numbers
FxMul(a, b) == RoundDiv(a * b, FX)

PlasticStepStalePre(i, spiking, dt) ==
    LET s == syn_list[i]
        p0 == FxMul(pre_tr[i], DecayFactor(dt, tau_trace_ms))
        q0 == FxMul(post_tr[i], DecayFactor(dt, tau_trace_ms))
        e0 == FxMul(elig[i], DecayFactor(dt, tau_elig_ms))
        p1 == IF s.pre \in spiking THEN p0 + A_pre ELSE p0
        e1 == IF s.pre \in spiking THEN e0 + FxMul(A_pre, q0) ELSE e0
        q1 == IF s.post \in spiking THEN q0 + A_post ELSE q0
        e2 == IF s.post \in spiking THEN e1 + FxMul(A_post, p0) ELSE e1
    IN  IF s.plastic
        THEN [pre_tr |-> p1, post_tr |-> q1, elig |-> e2]
        ELSE [pre_tr |-> pre_tr[i], post_tr |-> post_tr[i], elig |-> elig[i]]

\* the plasticity bookkeeping of step for the synapse at position i (1-based):
\* decay, then the pre-spike bump, then the post-spike bump
PlasticStep(i, spiking, dt) ==
    LET s == syn_list[i]
        p0 == FxMul(pre_tr[i], DecayFactor(dt, tau_trace_ms))
        q0 == FxMul(post_tr[i], DecayFactor(dt, tau_trace_ms))
        e0 == FxMul(elig[i], DecayFactor(dt, tau_elig_ms))
        p1 == IF s.pre \in spiking THEN p0 + A_pre ELSE p0
        e1 == IF s.pre \in spiking THEN e0 + FxMul(A_pre, q0) ELSE e0
        q1 == IF s.post \in spiking THEN q0 + A_post ELSE q0
        e2 == IF s.post \in spiking THEN e1 + FxMul(A_post, p1) ELSE e1
    IN  IF s.plastic
        THEN [pre_tr |-> p1, post_tr |-> q1, elig |-> e2]
        ELSE [pre_tr |-> pre_tr[i], post_tr |-> post_tr[i], elig |-> elig[i]]

ClipWeightNoUpper(w) == Max(w_min, w)

\* max(pc.w_min, min(pc.w_max, w))
ClipWeight(w) == Max(w_min, Min(w_max, w))

RewardedAll(i, r) ==
    LET s == syn_list[i]
        dw == RoundDiv(eta * r * elig[i], FX * FX)
    IN  [s EXCEPT !.w = ClipWeight(s.w + dw)]

RewardedUnsigned(i, r) ==
    LET s == syn_list[i]
        dw == RoundDiv(eta * (IF r < 0 THEN -r ELSE r) * elig[i], FX * FX)
    IN  IF s.plastic THEN [s EXCEPT !.w = ClipWeight(s.w + dw)] ELSE s

\* the synapse apply_reward writes back for position i
Rewarded(i, r) ==
    LET s == syn_list[i]
        dw == RoundDiv(eta * r * elig[i], FX * FX)
    IN  IF s.plastic THEN [s EXCEPT !.w = ClipWeight(s.w + dw)] ELSE s

----------------------------------------------------------------------------
(* Helpers over the containers *)

Ids == DOMAIN neurons

RECURSIVE Descending(_)
Descending(S) ==
    IF S = {} THEN <<>>
    ELSE LET m == CHOOSE x \in S : \A y \in S : x >= y
         IN  <<m>> \o Descending(S \ {m})

RECURSIVE Ascending(_)
\* the elements of a finite set of integers, in increasing order
Ascending(S) ==
    IF S = {} THEN <<>>
    ELSE LET m == CHOOSE x \in S : \A y \in S : x <= y
         IN  <<m>> \o Ascending(S \ {m})

RECURSIVE FlatOutgoing(_)
\* the synapses the propagation loop visits: outgoing[pre] for each pre in spikes
FlatOutgoing(spikes) ==
    IF spikes = <<>> THEN <<>>
    ELSE outgoing[Head(spikes)] \o FlatOutgoing(Tail(spikes))

RegroupNot(syns) == outgoing

\* outgoing rebuilt from a synapse list, as apply_reward does
Regroup(syns) ==
    [pre \in Ids |-> SelectSeq(syns, LAMBDA s : s.pre = pre)]

Range(f) == {f[x] : x \in DOMAIN f}

----------------------------------------------------------------------------
(* History kept for the properties *)

NoCall ==
    [op |-> "init", t |-> 0, now_bin |-> 0, spikes |-> <<>>, i_in |-> <<>>,
     led_in |-> <<>>, sched |-> <<>>, refractory |-> {}, prev_spike |-> <<>>,
     r |-> 0, w_before |-> <<>>, post |-> 0, inj_in |-> <<>>, dt |-> 0,
     pre_tr |-> <<>>, post_tr |-> <<>>, elig |-> <<>>]

\* ledger entry: the total added for <<bin, neuron>>, how much of it was
\* injected from outside, and how many of the additions were synaptic
\* deliveries
LedgerAdd(led, time_bin, nid, current, synaptic) ==
    LET k == <<time_bin, nid>>
        n == IF synaptic THEN 1 ELSE 0
        c == IF synaptic THEN 0 ELSE current
    IN  IF k \in DOMAIN led
        THEN [led EXCEPT ![k] = [cur |-> @.cur + current, inj |-> @.inj + c,
                                 nsyn |-> @.nsyn + n]]
        ELSE led @@ (k :> [cur |-> current, inj |-> c, nsyn |-> n])

RECURSIVE LedgerSchedule(_, _)
LedgerSchedule(led, sched) ==
    IF sched = <<>> THEN led
    ELSE LET d == Head(sched)
         IN  LedgerSchedule(LedgerAdd(led, d.at, d.post, d.w, TRUE), Tail(sched))

LedgerAt(led, time_bin, nid) ==
    IF <<time_bin, nid>> \in DOMAIN led THEN led[<<time_bin, nid>>].cur ELSE 0

LedgerInjected(led, time_bin, nid) ==
    IF <<time_bin, nid>> \in DOMAIN led THEN led[<<time_bin, nid>>].inj ELSE 0

Weights(syns) == [i \in DOMAIN syns |-> syns[i].w]

----------------------------------------------------------------------------
(* SNN operations *)

\* SNN.__init__ over the neuron ids `ids`
NetInit(ids) ==
    /\ neurons = [n \in ids |-> [v |-> v_rest, ref_until |-> RefSentinel]]
    /\ outgoing = [n \in ids |-> <<>>]
    /\ pending = <<>>
    /\ syn_list = <<>>
    /\ outgoing_idx = [n \in ids |-> <<>>]
    /\ pre_tr = <<>>
    /\ post_tr = <<>>
    /\ elig = <<>>
    /\ t_last = 0
    /\ calls = 0
    /\ last = NoCall
    /\ ledger = <<>>
    /\ spiked_at = [n \in ids |-> <<>>]

add_synapse_front(s) ==
    /\ syn_list' = <<s>> \o syn_list
    /\ outgoing' = [outgoing EXCEPT ![s.pre] = Append(@, s)]
    /\ outgoing_idx' = [outgoing_idx EXCEPT ![s.pre] = Append(@, Len(syn_list))]
    /\ pre_tr' = Append(pre_tr, 0)
    /\ post_tr' = Append(post_tr, 0)
    /\ elig' = Append(elig, 0)
    /\ calls' = calls + 1
    /\ last' = [NoCall EXCEPT !.op = "add_synapse"]
    /\ UNCHANGED <<neurons, pending, t_last, ledger, spiked_at>>

\* SNN.add_synapse
add_synapse(s) ==
    /\ syn_list' = Append(syn_list, s)
    /\ outgoing' = [outgoing EXCEPT ![s.pre] = Append(@, s)]
    /\ outgoing_idx' = [outgoing_idx EXCEPT ![s.pre] = Append(@, Len(syn_list))]
    /\ pre_tr' = Append(pre_tr, 0)
    /\ post_tr' = Append(post_tr, 0)
    /\ elig' = Append(elig, 0)
    /\ calls' = calls + 1
    /\ last' = [NoCall EXCEPT !.op = "add_synapse"]
    /\ UNCHANGED <<neurons, pending, t_last, ledger, spiked_at>>

InjectAtNext(t) == BinOf(t) + 1

\* the bin inject_spike adds to: int(round(t))
InjectAt(t) == BinOf(t)

\* SNN.inject_spike
inject_spike(t, post, current) ==
    /\ pending' = AddCurrent(pending, PackKey(InjectAt(t), post), current)
    /\ ledger' = LedgerAdd(ledger, BinOf(t), post, current, FALSE)
    /\ calls' = calls + 1
    /\ last' = [NoCall EXCEPT !.op = "inject_spike", !.t = t, !.now_bin = BinOf(t),
                   !.post = post]
    /\ UNCHANGED <<neurons, outgoing, syn_list, outgoing_idx, pre_tr, post_tr,
                   elig, t_last, spiked_at>>

\* SNN.step
step(t, dt_ms) ==
    LET now_bin == BinOf(t)
        i_in == [n \in Ids |-> InputOf(pending, now_bin, n)]
        drained == [k \in DOMAIN pending \ DrainKeys(pending, now_bin) |-> pending[k]]
        res == [n \in Ids |-> NeuronStep(neurons[n], t, dt_ms, i_in[n])]
        spiking == {n \in Ids : res[n].spike}
        spikes == Ascending(spiking)
        syns == FlatOutgoing(spikes)
        sched == [i \in DOMAIN syns |->
                    [pre |-> syns[i].pre, post |-> syns[i].post, w |-> syns[i].w,
                     delay_ms |-> syns[i].delay_ms,
                     at |-> DeliverAt(t, syns[i].delay_ms, now_bin)]]
        pl == [i \in DOMAIN syn_list |-> PlasticStep(i, spiking, t - t_last)]
    IN  /\ neurons' = [n \in Ids |-> [v |-> res[n].v, ref_until |-> res[n].ref_until]]
        /\ pending' = ScheduleAll(drained, syns, t, now_bin)
        /\ IF syn_list # <<>>
           THEN /\ t_last' = t
                /\ pre_tr' = [i \in DOMAIN syn_list |-> pl[i].pre_tr]
                /\ post_tr' = [i \in DOMAIN syn_list |-> pl[i].post_tr]
                /\ elig' = [i \in DOMAIN syn_list |-> pl[i].elig]
           ELSE UNCHANGED <<t_last, pre_tr, post_tr, elig>>
        /\ ledger' = LedgerSchedule(
               [k \in {x \in DOMAIN ledger : x[1] # now_bin} |-> ledger[k]], sched)
        /\ calls' = calls + 1
        /\ last' = [NoCall EXCEPT !.op = "step", !.t = t, !.now_bin = now_bin,
                       !.spikes = spikes, !.i_in = i_in,
                       !.led_in = [n \in Ids |-> LedgerAt(ledger, now_bin, n)],
                       !.inj_in = [n \in Ids |-> LedgerInjected(ledger, now_bin, n)],
                       !.dt = t - t_last, !.pre_tr = pre_tr,
                       !.post_tr = post_tr, !.elig = elig,
                       !.sched = sched,
                       !.refractory = {n \in Ids : t < neurons[n].ref_until},
                       !.prev_spike = spiked_at]
        /\ spiked_at' = [n \in Ids |-> IF n \in spiking THEN <<t>> ELSE spiked_at[n]]
        /\ UNCHANGED <<outgoing, syn_list, outgoing_idx>>

\* Neuron.reset on every neuron of the network: the one reset sim_core has
reset_neurons ==
    /\ neurons' = [n \in Ids |-> [v |-> v_rest, ref_until |-> RefSentinel]]
    /\ spiked_at' = [n \in Ids |-> <<>>]
    /\ calls' = calls + 1
    /\ last' = [NoCall EXCEPT !.op = "reset"]
    /\ UNCHANGED <<outgoing, pending, syn_list, outgoing_idx, pre_tr, post_tr,
                   elig, t_last, ledger>>

\* whether the drain loop of step(t) meets a key whose neuron id is not an
\* index of the list i_in: `i_in[nid] += cur` then raises IndexError
DrainRaises(p, now_bin) ==
    \E k \in DrainKeys(p, now_bin) : KeyNid(k) \notin Ids

\* SNN.step leaving through that IndexError: the loop that deletes the
\* drained keys and everything after it are not run
step_raised(t) ==
    /\ DrainRaises(pending, BinOf(t))
    /\ calls' = calls + 1
    /\ last' = [NoCall EXCEPT !.op = "step_raised", !.t = t, !.now_bin = BinOf(t)]
    /\ UNCHANGED <<neurons, outgoing, pending, syn_list, outgoing_idx, pre_tr,
                   post_tr, elig, t_last, ledger, spiked_at>>

apply_reward_reweighs(r) ==
    LET new_list == [i \in DOMAIN syn_list |-> Rewarded(i, r)]
    IN  /\ syn_list' = new_list
        /\ outgoing' = Regroup(new_list)
        /\ pending' = [k \in DOMAIN pending |-> ClipWeight(pending[k])]
        /\ calls' = calls + 1
        /\ last' = [NoCall EXCEPT !.op = "apply_reward", !.r = r,
                       !.w_before = Weights(syn_list)]
        /\ UNCHANGED <<neurons, outgoing_idx, pre_tr, post_tr, elig,
                       t_last, ledger, spiked_at>>

apply_reward_clears(r) ==
    LET new_list == [i \in DOMAIN syn_list |-> Rewarded(i, r)]
    IN  /\ syn_list' = new_list
        /\ outgoing' = Regroup(new_list)
        /\ elig' = [i \in DOMAIN elig |-> 0]
        /\ calls' = calls + 1
        /\ last' = [NoCall EXCEPT !.op = "apply_reward", !.r = r,
                       !.w_before = Weights(syn_list)]
        /\ UNCHANGED <<neurons, pending, outgoing_idx, pre_tr, post_tr,
                       t_last, ledger, spiked_at>>

\* SNN.apply_reward
apply_reward(r) ==
    LET new_list == [i \in DOMAIN syn_list |-> Rewarded(i, r)]
    IN  /\ syn_list' = new_list
        /\ outgoing' = Regroup(new_list)
        /\ calls' = calls + 1
        /\ last' = [NoCall EXCEPT !.op = "apply_reward", !.r = r,
                       !.w_before = Weights(syn_list)]
        /\ UNCHANGED <<neurons, pending, outgoing_idx, pre_tr, post_tr, elig,
                       t_last, ledger, spiked_at>>

----------------------------------------------------------------------------
(* IOCoordinator: output bindings and their readout schedule *)

NoIOCall ==
    [op |-> "init", t |-> 0, nid |-> 0, on_spike |-> <<>>, read |-> {},
     nulls |-> {}, actions |-> <<>>, resets |-> <<>>, cleared |-> {}]

NoEncode == [op |-> "init", t |-> 0, obs |-> {}, encoded |-> <<>>, stream |-> <<>>]

\* IOCoordinator.__init__
IOInit ==
    /\ outputs = <<>>
    /\ route = <<>>
    /\ io_clock = 0
    /\ io_calls = 0
    /\ io_last = NoIOCall
    /\ first_spike = <<>>
    /\ readouts = <<>>
    /\ inputs = <<>>
    /\ enc_last = NoEncode

\* the value of an Optional[SimTime]: <<>> for None, <<t>> for t
None == <<>>
Some(x) == <<x>>

ScheduleAlways(ob, t) ==
    [ob EXCEPT !.next_readout_at = Some(t + ob.readout_period_ms)]

\* OutputBinding.schedule_if_needed
ScheduleIfNeeded(ob, t) ==
    IF ob.next_readout_at = None
    THEN [ob EXCEPT !.next_readout_at = Some(t + ob.readout_period_ms)]
    ELSE ob

\* OutputBinding.due
Due(ob, t) == ob.next_readout_at # None /\ t >= ob.next_readout_at[1]

AdvanceNot(ob) == ob

\* OutputBinding.advance
Advance(ob) ==
    IF ob.next_readout_at # None
    THEN [ob EXCEPT !.next_readout_at = Some(@[1] + ob.readout_period_ms)]
    ELSE ob

RECURSIVE RouteAdd(_, _, _)
\* for nid in source_ids: self._route.setdefault(nid, []).append(idx)
RouteAdd(rt, source_ids, idx) ==
    IF source_ids = <<>> THEN rt
    ELSE LET nid == Head(source_ids)
             rt1 == IF nid \in DOMAIN rt
                    THEN [rt EXCEPT ![nid] = Append(@, idx)]
                    ELSE rt @@ (nid :> <<idx>>)
         IN  RouteAdd(rt1, Tail(source_ids), idx)

RouteOfAll(nid) == [i \in DOMAIN outputs |-> i - 1]

\* self._route.get(neuron_id, [])
RouteOf(nid) == IF nid \in DOMAIN route THEN route[nid] ELSE <<>>

Count(seq, x) == Cardinality({i \in DOMAIN seq : seq[i] = x})

\* IOCoordinator.bind_output; source_ids is the sequence the caller passes
bind_output(port, source_ids, readout_period_ms) ==
    LET ob == [port |-> port, source_ids |-> Range(source_ids),
               readout_period_ms |-> readout_period_ms, next_readout_at |-> None]
    IN  /\ outputs' = Append(outputs, ob)
        /\ route' = RouteAdd(route, source_ids, Len(outputs))
        /\ first_spike' = Append(first_spike, None)
        /\ readouts' = Append(readouts, <<>>)
        /\ io_calls' = io_calls + 1
        /\ io_last' = [NoIOCall EXCEPT !.op = "bind_output"]
        /\ UNCHANGED <<io_clock, inputs, enc_last>>

\* IOCoordinator.on_output_spike
on_output_spike(t, neuron_id) ==
    LET hit == {i \in DOMAIN outputs : Count(RouteOf(neuron_id), i - 1) > 0}
    IN  /\ outputs' = [i \in DOMAIN outputs |->
                          IF i \in hit THEN ScheduleIfNeeded(outputs[i], t)
                          ELSE outputs[i]]
        /\ first_spike' = [i \in DOMAIN outputs |->
                              IF i \in hit /\ first_spike[i] = None THEN Some(t)
                              ELSE first_spike[i]]
        /\ io_clock' = t
        /\ io_calls' = io_calls + 1
        /\ io_last' = [NoIOCall EXCEPT !.op = "on_output_spike", !.t = t,
                          !.nid = neuron_id,
                          !.on_spike = [i \in DOMAIN outputs |->
                                           Count(RouteOf(neuron_id), i - 1)]]
        /\ UNCHANGED <<route, readouts, inputs, enc_last>>

\* IOCoordinator.maybe_emit_actions; the decoders of the bindings in `nulls`
\* return None from readout, the decoder of binding i otherwise returns i
maybe_emit_actions(t, nulls) ==
    LET read == {i \in DOMAIN outputs : Due(outputs[i], t)}
        said == read \ nulls
        ports == {outputs[i].port : i \in said}
    IN  /\ outputs' = [i \in DOMAIN outputs |->
                          IF i \in read THEN Advance(outputs[i]) ELSE outputs[i]]
        /\ readouts' = [i \in DOMAIN outputs |->
                           IF i \in read THEN Append(readouts[i], t) ELSE readouts[i]]
        /\ io_clock' = t
        /\ io_calls' = io_calls + 1
        /\ io_last' = [NoIOCall EXCEPT !.op = "maybe_emit_actions", !.t = t,
                          !.read = read, !.nulls = nulls,
                          !.actions = [p \in ports |->
                              CHOOSE i \in said :
                                  /\ outputs[i].port = p
                                  /\ \A j \in said : outputs[j].port = p => j <= i]]
        /\ UNCHANGED <<route, first_spike, inputs, enc_last>>

io_reset_keeps_schedule ==
    /\ outputs' = outputs
    /\ first_spike' = [i \in DOMAIN outputs |-> None]
    /\ readouts' = [i \in DOMAIN outputs |-> <<>>]
    /\ io_calls' = io_calls + 1
    /\ io_last' = [NoIOCall EXCEPT !.op = "reset",
                      !.resets = [i \in DOMAIN outputs |-> 1],
                      !.cleared = {i \in DOMAIN outputs :
                                      outputs[i].next_readout_at # None}]
    /\ UNCHANGED <<route, io_clock, inputs, enc_last>>

\* IOCoordinator.reset; resets[i] counts the decoder.reset() calls made for
\* binding i
io_reset ==
    /\ outputs' = [i \in DOMAIN outputs |-> [outputs[i] EXCEPT !.next_readout_at = None]]
    /\ first_spike' = [i \in DOMAIN outputs |-> None]
    /\ readouts' = [i \in DOMAIN outputs |-> <<>>]
    /\ io_calls' = io_calls + 1
    /\ io_last' = [NoIOCall EXCEPT !.op = "reset",
                      !.resets = [i \in DOMAIN outputs |-> 1],
                      !.cleared = {i \in DOMAIN outputs :
                                      outputs[i].next_readout_at # None}]
    /\ UNCHANGED <<route, io_clock, inputs, enc_last>>

\* IOCoordinator.bind_input; the encoder is given by the (id, offset) pairs
\* its encode yields, offsets in 1/TU ms
bind_input(port, yields) ==
    /\ inputs' = Append(inputs, [port |-> port, yields |-> yields])
    /\ io_calls' = io_calls + 1
    /\ enc_last' = [NoEncode EXCEPT !.op = "bind_input"]
    /\ UNCHANGED <<outputs, route, io_clock, io_last, first_spike, readouts>>

RECURSIVE EncodedStopAtMissing(_, _, _)
EncodedStopAtMissing(ibs, idx, obs_by_port) ==
    IF ibs = <<>> THEN <<>>
    ELSE IF Head(ibs).port \notin obs_by_port THEN <<>>
    ELSE <<idx>> \o EncodedStopAtMissing(Tail(ibs), idx + 1, obs_by_port)

RECURSIVE Encoded(_, _, _)
\* the loop of encode_observations over the bindings ibs (the first of them
\* at position idx): the positions whose encoder.encode is called, in call
\* order; obs_by_port is the set of keys of env.observe(t)
Encoded(ibs, idx, obs_by_port) ==
    IF ibs = <<>> THEN <<>>
    ELSE IF Head(ibs).port \notin obs_by_port
         THEN Encoded(Tail(ibs), idx + 1, obs_by_port)
         ELSE <<idx>> \o Encoded(Tail(ibs), idx + 1, obs_by_port)

RECURSIVE Yielded(_)
\* what the generator yields: each encoder's pairs, in call order
Yielded(idxs) ==
    IF idxs = <<>> THEN <<>>
    ELSE inputs[Head(idxs)].yields \o Yielded(Tail(idxs))

\* IOCoordinator.encode_observations, consumed to its end by the caller
encode_observations(t, obs_by_port) ==
    LET encoded == Encoded(inputs, 1, obs_by_port)
    IN  /\ enc_last' = [op |-> "encode_observations", t |-> t,
                        obs |-> obs_by_port, encoded |-> encoded,
                        stream |-> Yielded(encoded)]
        /\ io_clock' = t
        /\ io_calls' = io_calls + 1
        /\ UNCHANGED <<outputs, route, io_last, first_spike, readouts, inputs>>

----------------------------------------------------------------------------
(* Runtime.tick, its single-decoder coordinator (core/interfaces.py) and   *)
(* the screen adapter's decoder                                            *)

min_action_delay_ms == 1

\* the ids the decoder reads as "up"; its other three id sets are empty
up_ids == {1}

\* readout periods a decoder may be built with, in ms
DecoderPeriodMenu == {1, 2}

\* an entry of tick_log: the call; the neuron id it was made with (for
\* "encode", the number of pairs the encoder returned); for a readout the
\* spikes the decoder had buffered, for a step the pending table it left
Ev(e, nid, seen) == [e |-> e, nid |-> nid, seen |-> seen]

\* the decoder's default readout period, in ms
readout_period_default == 100

\* Runtime.__init__ and FirstToSpikeMoveDecoder.__post_init__ of a decoder
\* built with readout period P
RtInit(P) ==
    /\ tick_pc = "idle"
    /\ tick_n = 0
    /\ enc_spikes = <<>>
    /\ tick_spikes = <<>>
    /\ tick_action = None
    /\ tick_r = 0
    /\ tick_log = <<>>
    /\ decoder = [buf |-> {}, t_next |-> 0, readout_period_ms |-> P]

RECURSIVE DecoderOnSpikes(_, _)
\* FirstToSpikeMoveDecoder.on_spike, called for each id of nids in order
DecoderOnSpikes(dec, nids) ==
    IF nids = <<>> THEN dec
    ELSE DecoderOnSpikes([dec EXCEPT !.buf = @ \cup {Head(nids)}], Tail(nids))

\* FirstToSpikeMoveDecoder.readout: the decoder afterwards and the action
DecoderReadout(dec, t) ==
    IF t < dec.t_next
    THEN [dec |-> dec, action |-> None]
    ELSE [dec |-> [dec EXCEPT
                      !.buf = {},
                      !.t_next = t + Max(min_action_delay_ms,
                                         dec.readout_period_ms) * TU],
          action |-> IF dec.buf \cap up_ids # {} THEN Some("up") ELSE None]

AppliesAlways(action) == TRUE

\* IOCoordinator.maybe_emit_action: whether env.apply_action is called
Applies(action) == action # None

PhaseAfterPollFirst(phase) ==
    CASE phase = "idle" -> "inject"
      [] phase = "inject" -> "poll"
      [] phase = "poll" -> "route"
      [] phase = "route" -> "goal"
      [] phase = "goal" -> "idle"

\* the order of the statements of Runtime.tick: the phase that follows each
PhaseAfter(phase) ==
    CASE phase = "idle" -> "inject"
      [] phase = "inject" -> "route"
      [] phase = "route" -> "poll"
      [] phase = "poll" -> "goal"
      [] phase = "goal" -> "idle"

\* tick, line 26: io.encode_observation(t) observes and calls the encoder,
\* which returns the pairs `yields`
tick_encode(yields) ==
    /\ tick_pc = "idle"
    /\ tick_pc' = PhaseAfter(tick_pc)
    /\ enc_spikes' = yields
    /\ tick_log' = <<Ev("encode", Len(yields), {})>>
    /\ tick_spikes' = <<>>
    /\ tick_action' = None
    /\ tick_r' = 0
    /\ UNCHANGED <<snnvars, decoder, tick_n>>

\* tick, lines 26-27: one turn of the injection loop
tick_inject(t, inject_scale) ==
    /\ tick_pc = "inject"
    /\ enc_spikes # <<>>
    /\ inject_spike(t + Head(enc_spikes)[2], Head(enc_spikes)[1], inject_scale)
    /\ enc_spikes' = Tail(enc_spikes)
    /\ tick_log' = Append(tick_log, Ev("inject", Head(enc_spikes)[1], {}))
    /\ UNCHANGED <<tick_pc, tick_n, tick_spikes, tick_action, tick_r, decoder>>

\* tick, line 30: spikes = self.net.step(t, dt_ms), once the loop is over
tick_step(t, dt_ms) ==
    /\ tick_pc = "inject"
    /\ enc_spikes = <<>>
    /\ step(t, dt_ms)
    /\ tick_pc' = PhaseAfter(tick_pc)
    /\ tick_spikes' = last'.spikes
    /\ tick_log' = Append(tick_log, Ev("step", 0, pending'))
    /\ UNCHANGED <<tick_n, enc_spikes, tick_action, tick_r, decoder>>

\* tick, lines 33-34: on_output_spike for every id of spikes, which hands
\* it to the decoder
tick_route ==
    /\ tick_pc = "route"
    /\ tick_pc' = PhaseAfter(tick_pc)
    /\ decoder' = DecoderOnSpikes(decoder, tick_spikes)
    /\ tick_log' = tick_log \o
           [i \in DOMAIN tick_spikes |-> Ev("on_spike", tick_spikes[i], {})]
    /\ UNCHANGED <<snnvars, tick_n, enc_spikes, tick_spikes, tick_action, tick_r>>

\* tick, lines 37-39: maybe_emit_action(t) between two observations
tick_poll(t) ==
    LET res == DecoderReadout(decoder, t)
    IN  /\ tick_pc = "poll"
        /\ tick_pc' = PhaseAfter(tick_pc)
        /\ decoder' = res.dec
        /\ tick_action' = res.action
        /\ tick_log' = tick_log \o <<Ev("readout", 0, decoder.buf)>> \o
               (IF Applies(res.action) THEN <<Ev("apply_action", 0, {})>>
                ELSE <<>>)
        /\ UNCHANGED <<snnvars, tick_n, enc_spikes, tick_spikes, tick_r>>

\* tick, lines 42-48: the goal is asked only if an action was returned; r is
\* what goal.evaluate returns
tick_goal(r) ==
    LET evaluated == tick_action # None
        rewarded == evaluated /\ r # 0
    IN  /\ tick_pc = "goal"
        /\ tick_pc' = PhaseAfter(tick_pc)
        /\ tick_r' = IF evaluated THEN r ELSE 0
        /\ IF rewarded THEN apply_reward(r) ELSE UNCHANGED snnvars
        /\ tick_log' = tick_log \o
               (IF evaluated THEN <<Ev("evaluate", 0, {})>> ELSE <<>>) \o
               (IF rewarded THEN <<Ev("apply_reward", 0, {})>> ELSE <<>>)
        /\ tick_n' = tick_n + 1
        /\ UNCHANGED <<enc_spikes, tick_spikes, tick_action, decoder>>

----------------------------------------------------------------------------
(* ProcessingCore: the population layout and the network built from it *)

Pop(name, start, size) == [name |-> name, start |-> start, size |-> size]

NoCoreCall == [op |-> "none", raised |-> FALSE, name |-> "", size |-> 0,
               dup |-> FALSE, pop |-> Pop("", 0, 0), w |-> 0, delay_ms |-> 0]

\* Pop.ids: range(start, start + size)
PopIds(p) == p.start .. (p.start + p.size - 1)

RECURSIVE SumSizes(_)
\* sum(p.size for p in self._order)
SumSizes(ps) ==
    IF ps = <<>> THEN 0 ELSE Head(ps).size + SumSizes(Tail(ps))

PopStartCount(ps) == Len(ps)

\* add_population: start = sum(p.size for p in self._order)
PopStart(ps) == SumSizes(ps)

\* SNN.__init__: [Neuron(...) for _ in range(num_neurons)] and an empty store
SNN(num_neurons) == [num_neurons |-> Max(0, num_neurons), syn_list |-> <<>>]

CoreInit ==
    /\ pops = [n \in {} |-> Pop("", 0, 0)]
    /\ order = <<>>
    /\ net = None
    /\ core_calls = 0
    /\ core_last = NoCoreCall

\* a call that stops at its assert
core_raise(op) ==
    /\ core_last' = [NoCoreCall EXCEPT !.op = op, !.raised = TRUE]
    /\ core_calls' = core_calls + 1
    /\ UNCHANGED <<pops, order, net>>

\* ProcessingCore.add_population
add_population(name, size) ==
    IF net # None
    THEN core_raise("add_population")
    ELSE LET pop == Pop(name, PopStart(order), size)
         IN  /\ pops' = [n \in DOMAIN pops \cup {name} |->
                            IF n = name THEN pop ELSE pops[n]]
             /\ order' = Append(order, pop)
             /\ core_last' = [NoCoreCall EXCEPT !.op = "add_population",
                                 !.name = name, !.size = size,
                                 !.dup = (name \in DOMAIN pops)]
             /\ core_calls' = core_calls + 1
             /\ UNCHANGED net

build_again ==
    /\ net' = Some(SNN(SumSizes(order)))
    /\ core_last' = [NoCoreCall EXCEPT !.op = "build"]
    /\ core_calls' = core_calls + 1
    /\ UNCHANGED <<pops, order>>

\* ProcessingCore.build
build ==
    IF net # None
    THEN core_raise("build")
    ELSE /\ net' = Some(SNN(SumSizes(order)))
         /\ core_last' = [NoCoreCall EXCEPT !.op = "build"]
         /\ core_calls' = core_calls + 1
         /\ UNCHANGED <<pops, order>>

\* for i in pre.ids: for j in post.ids: the k-th pair visited (k from 1)
PairAt(pre, post, k) ==
    <<pre.start + ((k - 1) \div post.size), post.start + ((k - 1) % post.size)>>

\* the number of pairs the two loops visit
PairCount(pre, post) == Max(0, pre.size) * Max(0, post.size)

\* self.net.add_synapse(...) for every element of syns, in order
NetAdd(syns) ==
    net' = Some([net[1] EXCEPT !.syn_list = @ \o syns])

\* ProcessingCore.dense; ws[k] is what random.uniform(w[0], w[1]) returned
\* for the k-th pair
dense(pre, post, ws, delay_ms, plastic) ==
    IF net = None
    THEN core_raise("dense")
    ELSE /\ NetAdd([k \in 1 .. PairCount(pre, post) |->
                       [pre |-> PairAt(pre, post, k)[1],
                        post |-> PairAt(pre, post, k)[2],
                        w |-> ws[k], delay_ms |-> delay_ms, plastic |-> plastic]])
         /\ core_last' = [NoCoreCall EXCEPT !.op = "dense"]
         /\ core_calls' = core_calls + 1
         /\ UNCHANGED <<pops, order>>

lateral_inhibition_all(pop, w, delay_ms) ==
    IF net = None
    THEN core_raise("lateral_inhibition")
    ELSE /\ NetAdd([k \in 1 .. PairCount(pop, pop) |->
                       [pre |-> PairAt(pop, pop, k)[1],
                        post |-> PairAt(pop, pop, k)[2],
                        w |-> w, delay_ms |-> delay_ms, plastic |-> FALSE]])
         /\ core_last' = [NoCoreCall EXCEPT !.op = "lateral_inhibition",
                             !.pop = pop, !.w = w, !.delay_ms = delay_ms]
         /\ core_calls' = core_calls + 1
         /\ UNCHANGED <<pops, order>>

\* ProcessingCore.lateral_inhibition
lateral_inhibition(pop, w_inh, delay_ms) ==
    IF net = None
    THEN core_raise("lateral_inhibition")
    ELSE LET all == [k \in 1 .. PairCount(pop, pop) |->
                        [pre |-> PairAt(pop, pop, k)[1],
                         post |-> PairAt(pop, pop, k)[2],
                         w |-> w_inh, delay_ms |-> delay_ms, plastic |-> FALSE]]
             NotSelf(s) == s.pre # s.post
         IN  /\ NetAdd(SelectSeq(all, NotSelf))
             /\ core_last' = [NoCoreCall EXCEPT !.op = "lateral_inhibition",
                                 !.pop = pop, !.w = w_inh, !.delay_ms = delay_ms]
             /\ core_calls' = core_calls + 1
             /\ UNCHANGED <<pops, order>>

----------------------------------------------------------------------------
(* The screen environment (screen_interface.py, concrete_io.py), the       *)
(* move decoder's four id sets, the center-seeking goal and the demo       *)
(* loop's reward                                                           *)

ScreenW == 4        \* width of the screen
ScreenH == 3        \* height of the screen

\* the decoder's step, in cells
move_step == 1

Cells == (0 .. ScreenW - 1) \X (0 .. ScreenH - 1)

\* Frame.__init__: every cell 0
Frame == [c \in Cells |-> 0]

\* ScreenAction; dx and dy of None are read as 0 by `action.dx or 0`
ScreenAction(kind, x, y, ch, dx, dy, draw) ==
    [kind |-> kind, x |-> x, y |-> y, ch |-> ch, dx |-> dx, dy |-> dy,
     draw |-> draw]

MoveAction(dx, dy) == ScreenAction("MOVE", None, None, None, dx, dy, TRUE)

DrawDot(x, y) == ScreenAction("DRAW_DOT", Some(x), Some(y), None, 0, 0, TRUE)

\* ScreenEnvironment._put_char: writes into the frame it is given
put_char(fr, x, y, ch_code) ==
    IF <<x, y>> \in Cells THEN [fr EXCEPT ![<<x, y>>] = ch_code] ELSE fr

\* ScreenEnvironment._move: the cursor is clamped to the screen and the cell
\* it lands on is drawn; the cell it left is not erased
move(env, dx, dy, draw, ch_code) ==
    LET x == Max(0, Min(ScreenW - 1, env.cursor[1] + dx))
        y == Max(0, Min(ScreenH - 1, env.cursor[2] + dy))
    IN  [cursor |-> <<x, y>>,
         frame |-> IF draw THEN put_char(env.frame, x, y, ch_code)
                   ELSE env.frame]

\* ScreenEnvironment._clear
clear(fr) == [c \in Cells |-> 0]

\* SimpleScreen.apply_action on env = [frame, cursor]; ch holds the code
\* ord(action.ch)
env_apply_action(env, action) ==
    CASE action.kind = "CLEAR" -> [env EXCEPT !.frame = clear(@)]
      [] action.kind = "PUT_CHAR" ->
            IF action.x # None /\ action.y # None /\ action.ch # None
            THEN [env EXCEPT
                     !.frame = put_char(@, action.x[1], action.y[1], action.ch[1])]
            ELSE env
      [] action.kind = "DRAW_DOT" ->
            IF action.x # None /\ action.y # None
            THEN [env EXCEPT !.frame = put_char(@, action.x[1], action.y[1], 1)]
            ELSE env
      [] action.kind = "MOVE" ->
            move(env, action.dx, action.dy, action.draw, 1)
      [] OTHER -> env

\* the place of a cell in the scan of _find_dot: rows from the top, each
\* from the left
ScanIndex(c) == c[2] * ScreenW + c[1]

\* _find_dot: the first nonzero cell of the scan, None if there is none
find_dot(fr) ==
    LET lit == { c \in Cells : fr[c] # 0 }
    IN  IF lit = {} THEN None
        ELSE Some(CHOOSE c \in lit : \A d \in lit : ScanIndex(c) <= ScanIndex(d))

\* _dist_to_wall
dist_to_wall(x, y, w, h) == Min(Min(x, y), Min(w - 1 - x, h - 1 - y))

\* the reward of a transition from the dot position p0 to p1, both found:
\* -1.0 if they are equal, else 0.2 + 0.1 * gain
MoveReward(p0, p1) ==
    IF p0 = p1 THEN -1 * FX
    ELSE (FX \div 5) + (FX \div 10) *
            (dist_to_wall(p1[1], p1[2], ScreenW, ScreenH)
             - dist_to_wall(p0[1], p0[2], ScreenW, ScreenH))

\* CenterSeekingGoal.evaluate on the two frames it is handed
evaluate(obs_before, obs_after) ==
    LET p0 == find_dot(obs_before)
        p1 == find_dot(obs_after)
    IN  IF p0 = None \/ p1 = None THEN 0 ELSE MoveReward(p0[1], p1[1])

\* the demo loop's r from pos_before, found before the action, and
\* pos_after, found after it
demo_reward(pos_before, pos_after) ==
    IF pos_before = None \/ pos_after = None THEN 0
    ELSE MoveReward(pos_before[1], pos_after[1])

\* the id sets of a decoder that watches up_ids for one direction only
UpOnly == [up |-> up_ids, down |-> {}, left |-> {}, right |-> {}]
DownOnly == [up |-> {}, down |-> up_ids, left |-> {}, right |-> {}]
LeftOnly == [up |-> {}, down |-> {}, left |-> up_ids, right |-> {}]
RightOnly == [up |-> {}, down |-> {}, left |-> {}, right |-> up_ids]

\* FirstToSpikeMoveDecoder.readout with the four id sets: the decoder
\* afterwards and the ScreenAction
DecoderReadoutMove(dec, t, ids) ==
    IF t < dec.t_next
    THEN [dec |-> dec, action |-> None]
    ELSE [dec |-> [dec EXCEPT
                      !.buf = {},
                      !.t_next = t + Max(min_action_delay_ms,
                                         dec.readout_period_ms) * TU],
          action |->
              IF dec.buf \cap ids.up # {} THEN Some(MoveAction(0, -move_step))
              ELSE IF dec.buf \cap ids.down # {}
                   THEN Some(MoveAction(0, move_step))
              ELSE IF dec.buf \cap ids.left # {}
                   THEN Some(MoveAction(-move_step, 0))
              ELSE IF dec.buf \cap ids.right # {}
                   THEN Some(MoveAction(move_step, 0))
              ELSE None]

NoEnvCall ==
    [op |-> "", applied |-> FALSE, cursor_before |-> <<0, 0>>,
     cursor_after |-> <<0, 0>>, frame_before |-> Frame, pos_before |-> None,
     r |-> 0, demo_r |-> 0]

\* ScreenEnvironment.__init__ and the decoder's id sets
EnvInit(ids) ==
    /\ frame = Frame
    /\ cursor = <<ScreenW \div 2, ScreenH \div 2>>
    /\ move_ids = ids
    /\ env_last = NoEnvCall

\* env.apply_action(0.0, DRAW_DOT at the centre), as the demo does before
\* its loop
draw_centre_dot ==
    LET after == env_apply_action([frame |-> frame, cursor |-> cursor],
                                  DrawDot(ScreenW \div 2, ScreenH \div 2))
    IN  /\ frame' = after.frame
        /\ cursor' = after.cursor
        /\ env_last' = [NoEnvCall EXCEPT !.op = "draw_dot"]
        /\ UNCHANGED move_ids

\* tick, lines 36-39, on the screen environment: obs_before = observe(t),
\* maybe_emit_action(t), which applies the action to the environment,
\* obs_after = observe(t).  observe returns self._frame, the object
\* apply_action writes into, so both names are bound to that one object;
\* frame_before keeps what it held when line 36 ran
screen_poll(t) ==
    LET res == DecoderReadoutMove(decoder, t, move_ids)
        env == [frame |-> frame, cursor |-> cursor]
        after == IF Applies(res.action)
                 THEN env_apply_action(env, res.action[1]) ELSE env
    IN  /\ tick_pc = "poll"
        /\ tick_pc' = PhaseAfter(tick_pc)
        /\ decoder' = res.dec
        /\ tick_action' = res.action
        /\ tick_log' = tick_log \o <<Ev("readout", 0, decoder.buf)>> \o
               (IF Applies(res.action) THEN <<Ev("apply_action", 0, {})>>
                ELSE <<>>)
        /\ frame' = after.frame
        /\ cursor' = after.cursor
        /\ env_last' = [op |-> "poll", applied |-> Applies(res.action),
                        cursor_before |-> cursor, cursor_after |-> after.cursor,
                        frame_before |-> frame, pos_before |-> find_dot(frame),
                        r |-> 0, demo_r |-> 0]
        /\ UNCHANGED <<snnvars, tick_n, enc_spikes, tick_spikes, tick_r, move_ids>>

\* tick, lines 42-48, with the center-seeking goal: evaluate reads
\* obs_before and obs_after now, after the action, and both are the
\* environment's frame as it is now.  demo_r is what the demo loop computes
\* for the same transition from the positions it found before and after
screen_goal ==
    LET obs_before == frame
        obs_after == frame
        r == evaluate(obs_before, obs_after)
    IN  /\ tick_goal(r)
        /\ env_last' = [env_last EXCEPT
               !.op = "goal",
               !.r = IF tick_action # None THEN r ELSE 0,
               !.demo_r = demo_reward(env_last.pos_before, find_dot(frame))]
        /\ UNCHANGED <<frame, cursor, move_ids>>

----------------------------------------------------------------------------
(* The network driven through its API by an arbitrary caller *)

Syn(pre, post, w, delay_ms, plastic) ==
    [pre |-> pre, post |-> post, w |-> w, delay_ms |-> delay_ms, plastic |-> plastic]

\* the synapses a caller may add: a fixed excitatory one with a 1.5 ms delay,
\* a plastic one created above w_max (demo_run.py draws w0 from [1.1, 1.5])
\* with no delay, a fixed inhibitory one with no delay, and a plastic one
\* created below w_min
SynMenu ==
    { Syn(0, 1, 1500, 3, FALSE),
      Syn(0, 1, 1300, 0, TRUE),
      Syn(1, 0, -600, 0, FALSE),
      Syn(1, 0, -1200, 0, TRUE) }

\* injected currents: the demos' 1.3
CurrentMenu == {1300}

\* rewards of the demo loop: punish, none, reward
RewardMenu == {-1000, 0, 1000}

\* dt_ms passed to step, in 1/TU ms: the demos' 10 ms
DtMenu == {10 * TU}

\* how far t advances between two step calls, in 1/TU ms: 0, 1 ms, 1.5 ms
DeltaMenu == {0, 2, 3}

\* injection offsets from the caller's time, in 1/TU ms: 0, 0.5 ms
OffsetMenu == {0, 1}

Init ==
    /\ NetInit(0 .. NumNeurons - 1)
    /\ clock = 0
    /\ dt_run = 0
    /\ injected = 0
    /\ IOInit
    /\ RtInit(readout_period_default)
    /\ CoreInit
    /\ EnvInit(UpOnly)

AddSynapse ==
    /\ calls < MaxCalls
    /\ Len(syn_list) < MaxSyn
    /\ \E s \in SynMenu : add_synapse(s)
    /\ UNCHANGED <<clock, dt_run, injected, iovars, rtvars, corevars, envvars>>

InjectSpike ==
    /\ calls < MaxCalls
    /\ injected < MaxInject
    /\ \E off \in OffsetMenu, post \in Ids, c \in CurrentMenu :
           inject_spike(clock + off, post, c)
    /\ injected' = injected + 1
    /\ UNCHANGED <<clock, dt_run, iovars, rtvars, corevars, envvars>>

Step ==
    /\ calls < MaxCalls
    /\ \E d \in DeltaMenu, dt_ms \in DtMenu :
           /\ step(clock + d, dt_ms)
           /\ clock' = clock + d
    /\ UNCHANGED <<dt_run, injected, iovars, rtvars, corevars, envvars>>

ApplyReward ==
    /\ calls < MaxCalls
    /\ \E r \in RewardMenu : apply_reward(r)
    /\ UNCHANGED <<clock, dt_run, injected, iovars, rtvars, corevars, envvars>>

Next == AddSynapse \/ InjectSpike \/ Step \/ ApplyReward

Spec == Init /\ [][Next]_vars

----------------------------------------------------------------------------
(* The network driven by the demo loop: each tick injects at t + offset,   *)
(* calls step(t, dt), applies a reward, then t += dt                       *)

\* tick sizes dt of a run, in 1/TU ms: 1 ms, and the demos' 10 ms
RunDtMenu == {1 * TU, 10 * TU}

\* injected currents of a run: the demos' 1.3, and one strong enough to make
\* a resting neuron spike in a 1 ms tick
RunCurrentMenu == {1300, 13000}

\* injection offsets of a run, in 1/TU ms: 0, 0.5 ms, 1 ms
RunOffsetMenu == {0, 1, 2}

InitRun ==
    /\ NetInit(0 .. NumNeurons - 1)
    /\ clock = 0
    /\ dt_run \in RunDtMenu
    /\ injected = 0
    /\ IOInit
    /\ RtInit(readout_period_default)
    /\ CoreInit
    /\ EnvInit(UpOnly)

\* the network is wired before the loop starts
RunAddSynapse ==
    /\ calls < MaxCalls
    /\ last.op \in {"init", "add_synapse"}
    /\ Len(syn_list) < MaxSyn
    /\ \E s \in SynMenu : add_synapse(s)
    /\ UNCHANGED <<clock, dt_run, injected, iovars, rtvars, corevars, envvars>>

RunInject ==
    /\ calls < MaxCalls
    /\ injected < MaxInject
    /\ \E off \in RunOffsetMenu, post \in Ids, c \in RunCurrentMenu :
           inject_spike(clock + off, post, c)
    /\ injected' = injected + 1
    /\ UNCHANGED <<clock, dt_run, iovars, rtvars, corevars, envvars>>

RunStep ==
    /\ calls < MaxCalls
    /\ step(clock, dt_run)
    /\ clock' = clock + dt_run
    /\ UNCHANGED <<dt_run, injected, iovars, rtvars, corevars, envvars>>

RunReward ==
    /\ calls < MaxCalls
    /\ last.op = "step"
    /\ \E r \in RewardMenu \ {0} : apply_reward(r)
    /\ UNCHANGED <<clock, dt_run, injected, iovars, rtvars, corevars, envvars>>

NextRun == RunAddSynapse \/ RunInject \/ RunStep \/ RunReward

SpecRun == InitRun /\ [][NextRun]_vars

----------------------------------------------------------------------------
(* A learning run: plastic synapses are wired, then a loop with a 1 ms     *)
(* tick forces spikes by injection, steps and applies rewards              *)

MaxPlastCalls == 7  \* API calls in a learning run

\* plastic synapses: scenario S5's (w = 0.0), the demo's (w0 drawn above
\* w_max), a self-loop
PlastSynMenu ==
    { Syn(0, 1, 0, 0, TRUE),
      Syn(0, 1, 1300, 0, TRUE),
      Syn(0, 0, 500, 0, TRUE) }

\* the injected current: strong enough to make a resting neuron spike in a
\* 1 ms tick
PlastCurrent == 13000

InitPlast ==
    /\ NetInit(0 .. NumNeurons - 1)
    /\ clock = 0
    /\ dt_run = 1 * TU
    /\ injected = 0
    /\ IOInit
    /\ RtInit(readout_period_default)
    /\ CoreInit
    /\ EnvInit(UpOnly)

PlastAddSynapse ==
    /\ calls < MaxPlastCalls
    /\ last.op \in {"init", "add_synapse"}
    /\ Len(syn_list) < MaxSyn
    /\ \E s \in PlastSynMenu : add_synapse(s)
    /\ UNCHANGED <<clock, dt_run, injected, iovars, rtvars, corevars, envvars>>

PlastInject ==
    /\ calls < MaxPlastCalls
    /\ injected < MaxInject
    /\ \E post \in Ids : inject_spike(clock, post, PlastCurrent)
    /\ injected' = injected + 1
    /\ UNCHANGED <<clock, dt_run, iovars, rtvars, corevars, envvars>>

PlastStep ==
    /\ calls < MaxPlastCalls
    /\ step(clock, dt_run)
    /\ clock' = clock + dt_run
    /\ UNCHANGED <<dt_run, injected, iovars, rtvars, corevars, envvars>>

PlastReward ==
    /\ calls < MaxPlastCalls
    /\ last.op \in {"step", "apply_reward"}
    /\ \E r \in RewardMenu : apply_reward(r)
    /\ UNCHANGED <<clock, dt_run, injected, iovars, rtvars, corevars, envvars>>

NextPlast == PlastAddSynapse \/ PlastInject \/ PlastStep \/ PlastReward

SpecPlast == InitPlast /\ [][NextPlast]_vars

----------------------------------------------------------------------------
(* A network of more than 2^16 neurons: the few neurons that are addressed *)
(* are tracked, every other neuron stays at rest with no input             *)

BigId == 2 ^ KeyShift

TrackedIds == {0, 1, BigId}

BigSynMenu == { Syn(0, BigId, 1500, 3, FALSE), Syn(BigId, 1, 1300, 0, TRUE) }

InitBig ==
    /\ NetInit(TrackedIds)
    /\ clock = 0
    /\ dt_run = 0
    /\ injected = 0
    /\ IOInit
    /\ RtInit(readout_period_default)
    /\ CoreInit
    /\ EnvInit(UpOnly)

BigAddSynapse ==
    /\ calls < MaxCalls
    /\ Len(syn_list) < MaxSyn
    /\ \E s \in BigSynMenu : add_synapse(s)
    /\ UNCHANGED <<clock, dt_run, injected, iovars, rtvars, corevars, envvars>>

NextBig == BigAddSynapse \/ InjectSpike \/ Step

SpecBig == InitBig /\ [][NextBig]_vars

----------------------------------------------------------------------------
(* The coordinator driven by a caller whose time t never decreases *)

MaxBind == 2        \* output bindings of a coordinator
MaxIOCalls == 6     \* coordinator calls in a run

\* bindings a caller may make; periods in 1/TU ms (1.5 ms, 2 ms, 2.5 ms)
BindMenu ==
    { [port |-> "nav", source_ids |-> <<0, 1>>, period |-> 3],
      [port |-> "nav", source_ids |-> <<1>>, period |-> 4],
      [port |-> "grip", source_ids |-> <<1, 1>>, period |-> 5] }

\* how far t advances from one coordinator call to the next, in 1/TU ms
IODeltaMenu == {0, 2, 7}

InitIO ==
    /\ NetInit(0 .. NumNeurons - 1)
    /\ clock = 0
    /\ dt_run = 0
    /\ injected = 0
    /\ IOInit
    /\ RtInit(readout_period_default)
    /\ CoreInit
    /\ EnvInit(UpOnly)

BindOutput ==
    /\ io_calls < MaxIOCalls
    /\ Len(outputs) < MaxBind
    /\ \E b \in BindMenu : bind_output(b.port, b.source_ids, b.period)
    /\ UNCHANGED <<netvars, rtvars, corevars, envvars>>

OnOutputSpike ==
    /\ io_calls < MaxIOCalls
    /\ \E d \in IODeltaMenu, nid \in 0 .. NumNeurons - 1 :
           on_output_spike(io_clock + d, nid)
    /\ UNCHANGED <<netvars, rtvars, corevars, envvars>>

MaybeEmitActions ==
    /\ io_calls < MaxIOCalls
    /\ \E d \in IODeltaMenu :
           \E nulls \in SUBSET {i \in DOMAIN outputs : Due(outputs[i], io_clock + d)} :
               maybe_emit_actions(io_clock + d, nulls)
    /\ UNCHANGED <<netvars, rtvars, corevars, envvars>>

IOReset ==
    /\ io_calls < MaxIOCalls
    /\ io_reset
    /\ UNCHANGED <<netvars, rtvars, corevars, envvars>>

NextIO == BindOutput \/ OnOutputSpike \/ MaybeEmitActions \/ IOReset

SpecIO == InitIO /\ [][NextIO]_vars

----------------------------------------------------------------------------
(* The input side of the coordinator: bindings, then encode_observations *)

MaxBindIn == 3      \* input bindings of a coordinator

\* input bindings a caller may make: an encoder that yields one spike, one
\* that yields two (the second 0.5 ms late), one that yields nothing
BindInMenu ==
    { [port |-> "cam", yields |-> <<<<0, 0>>>>],
      [port |-> "mic", yields |-> <<<<1, 0>>, <<0, 1>>>>],
      [port |-> "cam", yields |-> <<>>] }

\* keys env.observe may return
PortMenu == {"cam", "mic"}

BindInput ==
    /\ io_calls < MaxIOCalls
    /\ Len(inputs) < MaxBindIn
    /\ \E b \in BindInMenu : bind_input(b.port, b.yields)
    /\ UNCHANGED <<netvars, rtvars, corevars, envvars>>

EncodeObservations ==
    /\ io_calls < MaxIOCalls
    /\ \E d \in IODeltaMenu, obs_by_port \in SUBSET PortMenu :
           encode_observations(io_clock + d, obs_by_port)
    /\ UNCHANGED <<netvars, rtvars, corevars, envvars>>

NextEnc == BindInput \/ EncodeObservations

SpecEnc == InitIO /\ [][NextEnc]_vars

----------------------------------------------------------------------------
(* The closed loop: a driver that calls Runtime.tick(t, dt_ms, goal,       *)
(* inject_scale) at t = 0, dt, 2 dt, ...                                   *)

MaxTicks == 3       \* ticks of a run

\* what the encoder may return in a tick
EncoderMenu == { <<>>, <<<<0, 0>>>>, <<<<1, 0>>>>, <<<<0, 0>>, <<1, 0>>>> }

\* the network the core was built with: plastic input -> output synapses
TickSynMenu == { Syn(0, 1, 1300, 0, TRUE) }

\* inject_scale: strong enough to make a resting neuron spike in a 1 ms tick
inject_scale == 13000

InitTick ==
    /\ NetInit(0 .. NumNeurons - 1)
    /\ clock = 0
    /\ dt_run = 1 * TU
    /\ injected = 0
    /\ IOInit
    /\ \E P \in DecoderPeriodMenu : RtInit(P)
    /\ CoreInit
    /\ EnvInit(UpOnly)

TickAddSynapse ==
    /\ tick_pc = "idle"
    /\ tick_n = 0
    /\ Len(syn_list) < MaxSyn
    /\ \E s \in TickSynMenu : add_synapse(s)
    /\ UNCHANGED <<clock, dt_run, injected, iovars, rtvars, corevars, envvars>>

TickEncode ==
    /\ tick_n < MaxTicks
    /\ \E yields \in EncoderMenu : tick_encode(yields)
    /\ UNCHANGED <<clock, dt_run, injected, iovars, corevars, envvars>>

TickInject ==
    /\ tick_inject(clock, inject_scale)
    /\ UNCHANGED <<clock, dt_run, injected, iovars, corevars, envvars>>

TickStep ==
    /\ tick_step(clock, dt_run)
    /\ UNCHANGED <<clock, dt_run, injected, iovars, corevars, envvars>>

TickRoute ==
    /\ tick_route
    /\ UNCHANGED <<clock, dt_run, injected, iovars, corevars, envvars>>

TickPoll ==
    /\ tick_poll(clock)
    /\ UNCHANGED <<clock, dt_run, injected, iovars, corevars, envvars>>

\* the goal's answer, and the driver's t += dt_ms
TickGoal ==
    /\ \E r \in RewardMenu : tick_goal(r)
    /\ clock' = clock + dt_run
    /\ UNCHANGED <<dt_run, injected, iovars, corevars, envvars>>

NextTick ==
    \/ TickAddSynapse
    \/ TickEncode
    \/ TickInject
    \/ TickStep
    \/ TickRoute
    \/ TickPoll
    \/ TickGoal

SpecTick == InitTick /\ [][NextTick]_vars

----------------------------------------------------------------------------
(* A caller that also passes the neuron id N = len(neurons), one past the  *)
(* last neuron                                                             *)

IdMenu == 0 .. NumNeurons
IdSynMenu == { Syn(0, 1, 1300, 0, FALSE), Syn(0, NumNeurons, 1300, 0, FALSE) }
IdBindMenu == { <<0>>, <<NumNeurons>> }

IdsAddSynapse ==
    /\ calls < MaxCalls
    /\ Len(syn_list) < MaxSyn
    /\ \E s \in IdSynMenu : add_synapse(s)
    /\ UNCHANGED <<clock, dt_run, injected, iovars, rtvars, corevars, envvars>>

IdsInjectSpike ==
    /\ calls < MaxCalls
    /\ injected < MaxInject
    /\ \E post \in IdMenu, c \in CurrentMenu : inject_spike(clock, post, c)
    /\ injected' = injected + 1
    /\ UNCHANGED <<clock, dt_run, iovars, rtvars, corevars, envvars>>

IdsStep ==
    /\ calls < MaxCalls
    /\ \E d \in DeltaMenu, dt_ms \in DtMenu :
           /\ IF DrainRaises(pending, BinOf(clock + d))
              THEN step_raised(clock + d)
              ELSE step(clock + d, dt_ms)
           /\ clock' = clock + d
    /\ UNCHANGED <<dt_run, injected, iovars, rtvars, corevars, envvars>>

IdsBindOutput ==
    /\ Len(outputs) < MaxBind
    /\ \E ids \in IdBindMenu : bind_output("nav", ids, 3)
    /\ UNCHANGED <<netvars, rtvars, corevars, envvars>>

NextIds ==
    \/ IdsAddSynapse
    \/ IdsInjectSpike
    \/ IdsStep
    \/ IdsBindOutput

SpecIds == Init /\ [][NextIds]_vars

----------------------------------------------------------------------------
(* One neuron stepped at bins 0..10 with dt_ms = 1; before the step of a   *)
(* bin in 0..9 the caller may inject the current 0.2 for that bin          *)

S1Bins == 0 .. 10
S1InjectBins == 0 .. 9
S1CurrentMenu == {200}

InitS1 ==
    /\ NetInit({0})
    /\ clock = 0
    /\ dt_run = 1 * TU
    /\ injected = 0
    /\ IOInit
    /\ RtInit(readout_period_default)
    /\ CoreInit
    /\ EnvInit(UpOnly)

S1Inject ==
    /\ clock \in {b * TU : b \in S1InjectBins}
    /\ last.op # "inject_spike"
    /\ \E c \in S1CurrentMenu : inject_spike(clock, 0, c)
    /\ injected' = injected + 1
    /\ UNCHANGED <<clock, dt_run, iovars, rtvars, corevars, envvars>>

S1Step ==
    /\ clock \in {b * TU : b \in S1Bins}
    /\ step(clock, dt_run)
    /\ clock' = clock + dt_run
    /\ UNCHANGED <<dt_run, injected, iovars, rtvars, corevars, envvars>>

NextS1 ==
    \/ S1Inject
    \/ S1Step

SpecS1 == InitS1 /\ [][NextS1]_vars

----------------------------------------------------------------------------
(* A caller that also resets the neurons between steps                     *)

ResetAddSynapse ==
    /\ calls < MaxCalls
    /\ Len(syn_list) < MaxSyn
    /\ \E s \in PlastSynMenu : add_synapse(s)
    /\ UNCHANGED <<clock, dt_run, injected, iovars, rtvars, corevars, envvars>>

ResetInjectSpike ==
    /\ calls < MaxCalls
    /\ injected < MaxInject
    /\ \E post \in Ids : inject_spike(clock, post, PlastCurrent)
    /\ injected' = injected + 1
    /\ UNCHANGED <<clock, dt_run, iovars, rtvars, corevars, envvars>>

ResetStep ==
    /\ calls < MaxCalls
    /\ step(clock, dt_run)
    /\ clock' = clock + dt_run
    /\ UNCHANGED <<dt_run, injected, iovars, rtvars, corevars, envvars>>

ResetNeurons ==
    /\ calls < MaxCalls
    /\ reset_neurons
    /\ UNCHANGED <<clock, dt_run, injected, iovars, rtvars, corevars, envvars>>

NextReset ==
    \/ ResetAddSynapse
    \/ ResetInjectSpike
    \/ ResetStep
    \/ ResetNeurons

SpecReset == InitPlast /\ [][NextReset]_vars

----------------------------------------------------------------------------
(* A caller whose step times may also go back                              *)

\* how far t moves from one step to the next, in 1/TU ms
BackDeltaMenu == {-2, 0, 2}

BackAddSynapse ==
    /\ calls < MaxCalls
    /\ Len(syn_list) < MaxSyn
    /\ \E s \in PlastSynMenu : add_synapse(s)
    /\ UNCHANGED <<clock, dt_run, injected, iovars, rtvars, corevars, envvars>>

BackInjectSpike ==
    /\ calls < MaxCalls
    /\ injected < MaxInject
    /\ \E post \in Ids : inject_spike(clock, post, PlastCurrent)
    /\ injected' = injected + 1
    /\ UNCHANGED <<clock, dt_run, iovars, rtvars, corevars, envvars>>

BackStep ==
    /\ calls < MaxCalls
    /\ \E d \in BackDeltaMenu, dt_ms \in DtMenu :
           /\ clock + d >= 0
           /\ step(clock + d, dt_ms)
           /\ clock' = clock + d
    /\ UNCHANGED <<dt_run, injected, iovars, rtvars, corevars, envvars>>

NextBack ==
    \/ BackAddSynapse
    \/ BackInjectSpike
    \/ BackStep

SpecBack == Init /\ [][NextBack]_vars

----------------------------------------------------------------------------
(* A caller that lays out populations, builds the network and wires it, in *)
(* any order                                                               *)

MaxCoreCalls == 5   \* ProcessingCore calls in a run
MaxCoreSyn == 3     \* no wiring call is made once the store is this long

NameMenu == {"in", "out"}
SizeMenu == {0, 1, 2}
\* the (lo, hi) weight interval of a dense call, in 1/FX
DenseW == <<600, 1000>>
w_inh == -300

InitCore ==
    /\ NetInit(0 .. NumNeurons - 1)
    /\ clock = 0
    /\ dt_run = 0
    /\ injected = 0
    /\ IOInit
    /\ RtInit(readout_period_default)
    /\ CoreInit
    /\ EnvInit(UpOnly)

\* the Pop objects the caller holds: those add_population returned
Held == Range(order)

AddPopulation ==
    /\ core_calls < MaxCoreCalls
    /\ \E name \in NameMenu, size \in SizeMenu : add_population(name, size)
    /\ UNCHANGED <<netvars, iovars, rtvars, envvars>>

Build ==
    /\ core_calls < MaxCoreCalls
    /\ build
    /\ UNCHANGED <<netvars, iovars, rtvars, envvars>>

Dense ==
    /\ core_calls < MaxCoreCalls
    /\ net # None => Len(net[1].syn_list) < MaxCoreSyn
    /\ \E pre \in Held, post \in Held :
           \E ws \in [1 .. PairCount(pre, post) -> {DenseW[1], DenseW[2]}] :
               \E plastic \in BOOLEAN : dense(pre, post, ws, 1 * TU, plastic)
    /\ UNCHANGED <<netvars, iovars, rtvars, envvars>>

LateralInhibition ==
    /\ core_calls < MaxCoreCalls
    /\ net # None => Len(net[1].syn_list) < MaxCoreSyn
    /\ \E pop \in Held : lateral_inhibition(pop, w_inh, 0)
    /\ UNCHANGED <<netvars, iovars, rtvars, envvars>>

NextCore ==
    \/ AddPopulation
    \/ Build
    \/ Dense
    \/ LateralInhibition

SpecCore == InitCore /\ [][NextCore]_vars

----------------------------------------------------------------------------
(* The closed loop on the screen: the demo's setup draws the dot at the    *)
(* centre, then Runtime.tick runs with the move decoder and the            *)
(* center-seeking goal                                                     *)

MoveIdsMenu == {UpOnly, DownOnly, LeftOnly, RightOnly}

InitScreen ==
    /\ NetInit(0 .. NumNeurons - 1)
    /\ clock = 0
    /\ dt_run = 1 * TU
    /\ injected = 0
    /\ IOInit
    /\ \E P \in DecoderPeriodMenu : RtInit(P)
    /\ CoreInit
    /\ \E ids \in MoveIdsMenu : EnvInit(ids)

ScreenDrawDot ==
    /\ tick_pc = "idle"
    /\ tick_n = 0
    /\ env_last.op = ""
    /\ draw_centre_dot
    /\ UNCHANGED <<netvars, iovars, rtvars, corevars>>

ScreenPoll ==
    /\ screen_poll(clock)
    /\ UNCHANGED <<clock, dt_run, injected, iovars, corevars>>

\* the goal's answer, and the driver's t += dt_ms
ScreenGoal ==
    /\ screen_goal
    /\ clock' = clock + dt_run
    /\ UNCHANGED <<dt_run, injected, iovars, corevars>>

NextScreen ==
    \/ TickAddSynapse
    \/ ScreenDrawDot
    \/ TickEncode
    \/ TickInject
    \/ TickStep
    \/ TickRoute
    \/ ScreenPoll
    \/ ScreenGoal

SpecScreen == InitScreen /\ [][NextScreen]_vars

----------------------------------------------------------------------------
(* Properties of the network under Spec *)

Stepped == last.op = "step"

\* the pending table holds exactly what the ledger says was added and not
\* yet drained, entry by entry
PendingIsLedger ==
    /\ \A k \in DOMAIN pending :
           /\ <<KeyBin(k), KeyNid(k)>> \in DOMAIN ledger
           /\ pending[k] = ledger[<<KeyBin(k), KeyNid(k)>>].cur
    /\ \A e \in DOMAIN ledger : PackKey(e[1], e[2]) \in DOMAIN pending

\* C1 as stated: every current a spike of step(t) schedules over a synapse of
\* delay d goes to a bin strictly greater than b = round(t) and at least
\* round(b + d).
C1_DelayFromBin ==
    Stepped =>
        \A i \in DOMAIN last.sched :
            /\ last.sched[i].at > last.now_bin
            /\ last.sched[i].at >= BinOf(last.now_bin * TU + last.sched[i].delay_ms)

\* C1 amended: every current a spike of step(t) schedules over a synapse of
\* delay d is placed in the table at bin max(b + 1, round(t + d)), b = round(t):
\* strictly greater than b and at least round(t + d); no entry of bin b is
\* left by the step, so a spike never feeds the tick that produced it.
C1_DelayMonotone ==
    Stepped =>
        /\ \A i \in DOMAIN last.sched :
               /\ last.sched[i].at > last.now_bin
               /\ last.sched[i].at >= BinOf(last.t + last.sched[i].delay_ms)
               /\ last.sched[i].at =
                      Max(last.now_bin + 1, BinOf(last.t + last.sched[i].delay_ms))
               /\ PackKey(last.sched[i].at, last.sched[i].post) \in DOMAIN pending
        /\ \A k \in DOMAIN pending : KeyBin(k) # last.now_bin

\* a spike at a fractional time whose zero-delay synapse was promoted to b + 1
C1_Witness ==
    /\ Stepped
    /\ last.t % TU # 0
    /\ \E i \in DOMAIN last.sched :
           /\ last.sched[i].delay_ms = 0
           /\ last.sched[i].at = last.now_bin + 1

\* C3: in every step(t), a neuron with t < ref_until is not in the spike
\* list and has v = v_reset afterwards, whatever current was drained for it;
\* a neuron that spikes gets ref_until = t + tau_ref_ms, and no neuron spikes
\* at a time earlier than its previous spike time plus tau_ref_ms.
C3_RefractorySeal ==
    Stepped =>
        /\ \A n \in last.refractory :
               /\ n \notin Range(last.spikes)
               /\ neurons[n].v = v_reset
        /\ \A n \in Range(last.spikes) :
               /\ neurons[n].ref_until = last.t + tau_ref_ms * TU
               /\ \/ last.prev_spike[n] = <<>>
                  \/ last.t >= last.prev_spike[n][1] + tau_ref_ms * TU

\* a refractory neuron for which a supra-threshold current was drained
C3_Witness ==
    /\ Stepped
    /\ \E n \in last.refractory :
           /\ last.i_in[n] >= v_thresh
           /\ last.prev_spike[n] # <<>>

\* C37: what step(t) drains for a neuron with t < ref_until is gone from the
\* pending table and is not in the neuron's potential, which is v_reset;
\* the table's later entries for the neuron are exactly what was scheduled
\* for those bins, so nothing of the drained current is carried over.
C37_RefractoryDiscard ==
    Stepped =>
        \A n \in last.refractory :
            /\ last.i_in[n] = last.led_in[n]
            /\ neurons[n].v = v_reset
            /\ \A k \in DOMAIN pending :
                   KeyNid(k) = n =>
                       /\ KeyBin(k) # last.now_bin
                       /\ pending[k] = LedgerAt(ledger, KeyBin(k), n)
                       /\ <<last.now_bin, n>> \notin DOMAIN ledger

\* a refractory neuron for which a current was drained at a step that left
\* the pending table empty
C37_Witness ==
    /\ Stepped
    /\ \E n \in last.refractory : last.i_in[n] > 0 /\ last.inj_in[n] > 0
    /\ DOMAIN pending = {}

\* C4: right after apply_reward(r) returns, every plastic synapse weight in
\* the store (and in its delivery copy) lies in [w_min, w_max].
C4_WeightClipping ==
    last.op = "apply_reward" =>
        /\ \A i \in DOMAIN syn_list :
               syn_list[i].plastic =>
                   (w_min <= syn_list[i].w /\ syn_list[i].w <= w_max)
        /\ \A n \in Ids : \A i \in DOMAIN outgoing[n] :
               outgoing[n][i].plastic =>
                   (w_min <= outgoing[n][i].w /\ outgoing[n][i].w <= w_max)

\* a reward applied to a plastic synapse that was created above w_max, with
\* a non-zero eligibility on some synapse
C4_Witness ==
    /\ last.op = "apply_reward"
    /\ last.r # 0
    /\ \E i \in DOMAIN syn_list :
           /\ syn_list[i].plastic
           /\ last.w_before[i] > w_max
           /\ elig[i] # 0

\* C5: apply_reward(0.0) leaves the weight of every synapse as it was.
C5_ZeroRewardIdempotent ==
    (last.op = "apply_reward" /\ last.r = 0) => Weights(syn_list) = last.w_before

\* C6: the input step(t) integrates for neuron n is the sum of the currents
\* added for (round(t), n) (0 if none); after the step no entry of bin
\* round(t) remains and every other entry is what was added for it.
C6_Drain ==
    Stepped =>
        /\ \A n \in Ids : last.i_in[n] = last.led_in[n]
        /\ \A k \in DOMAIN pending : KeyBin(k) # last.now_bin
        /\ \A e \in DOMAIN ledger :
               /\ PackKey(e[1], e[2]) \in DOMAIN pending
               /\ pending[PackKey(e[1], e[2])] = ledger[e].cur
        /\ \A k \in DOMAIN pending : <<KeyBin(k), KeyNid(k)>> \in DOMAIN ledger

\* a step that drained the sum of two additions (1.3 + 1.3) for one neuron
\* and left an entry of another bin in the table
C6_Witness ==
    /\ Stepped
    /\ \E n \in Ids : last.i_in[n] = 2600
    /\ DOMAIN pending # {}

\* C17: a current injected at a time t' with round(t') = round(t) before
\* step(t) is in the table under bin round(t) and is part of the input that
\* step integrates for its neuron: the input is the injected sum plus the
\* synaptic deliveries that were due, while everything the step schedules
\* over synapses goes to a later bin.
C17_InjectSameBin ==
    /\ last.op = "inject_spike" =>
           /\ PackKey(BinOf(last.t), last.post) \in DOMAIN pending
           /\ pending[PackKey(BinOf(last.t), last.post)] =
                  ledger[<<BinOf(last.t), last.post>>].cur
    /\ Stepped =>
           /\ \A n \in Ids :
                  /\ last.i_in[n] = last.led_in[n]
                  /\ last.led_in[n] = last.inj_in[n] => last.i_in[n] = last.inj_in[n]
           /\ \A i \in DOMAIN last.sched : last.sched[i].at > last.now_bin

\* a step at a fractional time t that integrated a current injected at a
\* different time of the same bin and made the neuron spike
C17_Witness ==
    /\ Stepped
    /\ last.t % TU # 0
    /\ \E n \in Range(last.spikes) : last.inj_in[n] > 0

\* C21: the weight of a synapse is changed by no call other than
\* apply_reward, and only if the synapse is plastic: step and inject_spike
\* leave the store and the delivery copies as they were, and apply_reward
\* leaves a non-plastic synapse, its traces and its eligibility as they were.
C21_WeightsFrame ==
    [][/\ last'.op \in {"step", "inject_spike"} =>
              (syn_list' = syn_list /\ outgoing' = outgoing)
       /\ last'.op = "apply_reward" =>
              \A i \in DOMAIN syn_list :
                  ~syn_list[i].plastic =>
                      /\ syn_list'[i] = syn_list[i]
                      /\ pre_tr'[i] = pre_tr[i]
                      /\ post_tr'[i] = post_tr[i]
                      /\ elig'[i] = elig[i]
       /\ \A i \in DOMAIN syn_list :
              syn_list'[i].w # syn_list[i].w =>
                  (last'.op = "apply_reward" /\ syn_list[i].plastic)
       /\ \A n \in Ids : \A k \in DOMAIN outgoing[n] :
              (k \in DOMAIN outgoing'[n] /\ outgoing'[n][k].w # outgoing[n][k].w) =>
                  (last'.op = "apply_reward" /\ outgoing[n][k].plastic)]_vars

\* a reward that changed a plastic weight while the store also held a
\* non-plastic synapse whose weight lies outside [w_min, w_max]
C21_Witness ==
    /\ last.op = "apply_reward"
    /\ \E i, j \in DOMAIN syn_list :
           /\ syn_list[i].plastic
           /\ syn_list[i].w # last.w_before[i]
           /\ ~syn_list[j].plastic
           /\ syn_list[j].w > w_max

\* C22: the list step returns is strictly ascending by neuron id and holds
\* exactly the neurons that spiked in the step (those that were not
\* refractory and whose refractory period now ends at t + tau_ref_ms), each
\* once, all of them ids of the network.
C22_SpikesAscending ==
    Stepped =>
        /\ \A j, k \in DOMAIN last.spikes : j < k => last.spikes[j] < last.spikes[k]
        /\ Range(last.spikes) \subseteq Ids
        /\ Range(last.spikes) =
               {n \in Ids \ last.refractory :
                    neurons[n].ref_until = last.t + tau_ref_ms * TU}

\* a step in which two neurons spiked
C22_Witness ==
    /\ Stepped
    /\ Len(last.spikes) = 2

\* C23: for every neuron pre, outgoing[pre] is the sequence of the store's
\* entries at the indices outgoing_idx[pre], in insertion order, and every
\* current a step schedules carries the weight the store holds for a synapse
\* with that pre, post and delay.
C23_AdjacencyLockstep ==
    /\ \A pre \in Ids :
           /\ Len(outgoing[pre]) = Len(outgoing_idx[pre])
           /\ \A k \in DOMAIN outgoing[pre] :
                  outgoing[pre][k] = syn_list[outgoing_idx[pre][k] + 1]
           /\ \A j, k \in DOMAIN outgoing_idx[pre] :
                  j < k => outgoing_idx[pre][j] < outgoing_idx[pre][k]
    /\ Stepped =>
           \A k \in DOMAIN last.sched :
               \E i \in DOMAIN syn_list :
                   /\ syn_list[i].pre = last.sched[k].pre
                   /\ syn_list[i].post = last.sched[k].post
                   /\ syn_list[i].delay_ms = last.sched[k].delay_ms
                   /\ syn_list[i].w = last.sched[k].w

\* a step that scheduled a current over a plastic synapse whose weight an
\* earlier reward had changed
C23_Witness ==
    /\ Stepped
    /\ \E k \in DOMAIN last.sched :
           \E i \in DOMAIN syn_list :
               /\ syn_list[i].plastic
               /\ syn_list[i].pre = last.sched[k].pre
               /\ last.sched[k].w = w_max

\* C24: the store never shrinks; add_synapse gives the new synapse the index
\* len(store) and records it under its pre neuron; for every existing index
\* the pre, post, delay and plastic flag never change, the weight changes
\* only if the synapse is plastic, and add_synapse and apply_reward leave
\* its traces and eligibility in place.
C24_StableIndices ==
    [][/\ Len(syn_list') >= Len(syn_list)
       /\ \A i \in DOMAIN syn_list :
              /\ syn_list'[i].pre = syn_list[i].pre
              /\ syn_list'[i].post = syn_list[i].post
              /\ syn_list'[i].delay_ms = syn_list[i].delay_ms
              /\ syn_list'[i].plastic = syn_list[i].plastic
              /\ ~syn_list[i].plastic => syn_list'[i].w = syn_list[i].w
              /\ last'.op \in {"add_synapse", "apply_reward"} =>
                     /\ pre_tr'[i] = pre_tr[i]
                     /\ post_tr'[i] = post_tr[i]
                     /\ elig'[i] = elig[i]
       /\ last'.op = "add_synapse" =>
              /\ Len(syn_list') = Len(syn_list) + 1
              /\ \E pre \in Ids :
                     outgoing_idx'[pre] = Append(outgoing_idx[pre], Len(syn_list))]_vars

\* a synapse added after a step had given the first synapse a trace
C24_Witness ==
    /\ last.op = "add_synapse"
    /\ Len(syn_list) = 2
    /\ pre_tr[1] > 0

----------------------------------------------------------------------------
(* Properties of a driver-loop run, under SpecRun *)

Sign(x) == IF x > 0 THEN 1 ELSE IF x < 0 THEN -1 ELSE 0

\* C39: a neuron spikes in a step only if the step drained a positive
\* current for it; and a step taken with every neuron at v_rest and nothing
\* drained returns no spike, schedules nothing and leaves every potential,
\* every weight and the sign of every trace and eligibility as they were.
C39_Quiescence ==
    [][last'.op = "step" =>
          /\ \A n \in Range(last'.spikes) : last'.i_in[n] > 0
          /\ (\A n \in Ids : neurons[n].v = v_rest /\ last'.i_in[n] = 0) =>
                 /\ last'.spikes = <<>>
                 /\ last'.sched = <<>>
                 /\ \A n \in Ids : neurons'[n].v = v_rest
                 /\ syn_list' = syn_list
                 /\ outgoing' = outgoing
                 /\ \A i \in DOMAIN syn_list :
                        /\ Sign(pre_tr'[i]) = Sign(pre_tr[i])
                        /\ Sign(post_tr'[i]) = Sign(post_tr[i])
                        /\ Sign(elig'[i]) = Sign(elig[i])]_vars

\* a step with every neuron at v_rest and nothing drained, taken while a
\* plastic synapse has a positive trace and the table still holds an entry
\* of another bin
C39_Witness ==
    /\ Stepped
    /\ last.spikes = <<>>
    /\ \A n \in Ids : last.i_in[n] = 0 /\ neurons[n].v = v_rest
    /\ \E i \in DOMAIN syn_list : syn_list[i].plastic /\ last.pre_tr[i] > 0
    /\ DOMAIN pending # {}

\* C2: in a run stepping at t = 0, dt, 2 dt, ..., every scheduled synaptic
\* current is applied exactly once, at the step of its delivery bin: each
\* step integrates exactly what was added for its bin, and once a step at
\* bin b has run no synaptic delivery for a bin <= b is still waiting.
C2_DeliveredOnce ==
    Stepped =>
        /\ \A n \in Ids : last.i_in[n] = last.led_in[n]
        /\ \A e \in DOMAIN ledger : e[1] <= last.now_bin => ledger[e].nsyn = 0

\* C7: after every step(t) of a run the table holds no entry whose bin is
\* <= round(t).
C7_NoPastEntries ==
    Stepped => \A k \in DOMAIN pending : KeyBin(k) > last.now_bin

----------------------------------------------------------------------------
(* Properties of plasticity, under SpecPlast *)

\* C18: step updates a plastic synapse pre -> post from the decayed values
\* p, q, e of its pre trace, post trace and eligibility: if pre spiked,
\* pre_trace = p + A_pre and eligibility gains A_pre * q; then, if post
\* spiked, post_trace = q + A_post and eligibility gains A_post times the
\* pre trace as already bumped; so with both spiking, eligibility is
\* e + A_pre * q + A_post * (p + A_pre). Other synapses keep their values.
C18_PlasticityOrder ==
    Stepped =>
        \A i \in DOMAIN syn_list :
            LET p == FxMul(last.pre_tr[i], DecayFactor(last.dt, tau_trace_ms))
                q == FxMul(last.post_tr[i], DecayFactor(last.dt, tau_trace_ms))
                e == FxMul(last.elig[i], DecayFactor(last.dt, tau_elig_ms))
                pre == syn_list[i].pre \in Range(last.spikes)
                post == syn_list[i].post \in Range(last.spikes)
            IN  IF syn_list[i].plastic
                THEN /\ pre_tr[i] = p + (IF pre THEN A_pre ELSE 0)
                     /\ post_tr[i] = q + (IF post THEN A_post ELSE 0)
                     /\ elig[i] = e + (IF pre THEN FxMul(A_pre, q) ELSE 0)
                                    + (IF post THEN FxMul(A_post, pre_tr[i]) ELSE 0)
                     /\ (pre /\ post) =>
                            elig[i] = e + FxMul(A_pre, q) + FxMul(A_post, p + A_pre)
                ELSE /\ pre_tr[i] = last.pre_tr[i]
                     /\ post_tr[i] = last.post_tr[i]
                     /\ elig[i] = last.elig[i]

\* a step in which the neuron of a plastic self-loop spiked while the
\* synapse's traces and eligibility were all non-zero
C18_Witness ==
    /\ Stepped
    /\ \E i \in DOMAIN syn_list :
           /\ syn_list[i].plastic
           /\ syn_list[i].pre = syn_list[i].post
           /\ syn_list[i].pre \in Range(last.spikes)
           /\ last.pre_tr[i] > 0
           /\ last.post_tr[i] > 0
           /\ last.elig[i] > 0

\* C36: a spike schedules, for each outgoing synapse, the weight the store
\* holds at that step; apply_reward leaves every scheduled amount as it was;
\* and the step of the delivery bin hands each neuron the sum of the amounts
\* scheduled for it, whatever the store's weights have become.
C36_WeightAtSpike ==
    [][/\ last'.op = "step" =>
              /\ \A k \in DOMAIN last'.sched :
                     \E i \in DOMAIN syn_list :
                         /\ syn_list[i].pre = last'.sched[k].pre
                         /\ syn_list[i].post = last'.sched[k].post
                         /\ syn_list[i].w = last'.sched[k].w
              /\ \A n \in Ids :
                     last'.i_in[n] = LedgerAt(ledger, last'.now_bin, n)
       /\ last'.op = "apply_reward" =>
              /\ pending' = pending
              /\ \A e \in DOMAIN ledger :
                     pending'[PackKey(e[1], e[2])] = ledger[e].cur]_vars

\* a step that delivered 1.3 over a plastic synapse whose stored weight a
\* reward had lowered to w_max between the spike and the delivery
C36_Witness ==
    /\ Stepped
    /\ \E i \in DOMAIN syn_list :
           /\ syn_list[i].plastic
           /\ syn_list[i].pre # syn_list[i].post
           /\ syn_list[i].w = w_max
           /\ last.i_in[syn_list[i].post] = 1300
           /\ last.inj_in[syn_list[i].post] = 0

\* C19: apply_reward(r) leaves the traces and the eligibility of every
\* synapse, t_last, every neuron's state and the pending table as they were,
\* and the eligibility of a synapse is changed by no call other than step.
C19_RewardFrame ==
    [][/\ last'.op = "apply_reward" =>
              /\ pre_tr' = pre_tr
              /\ post_tr' = post_tr
              /\ elig' = elig
              /\ t_last' = t_last
              /\ neurons' = neurons
              /\ pending' = pending
       /\ \A i \in DOMAIN elig : elig'[i] # elig[i] => last'.op = "step"]_vars

\* a non-zero reward that changed the weight of a synapse with non-zero
\* traces and eligibility while a scheduled current was waiting
C19_Witness ==
    /\ last.op = "apply_reward"
    /\ last.r # 0
    /\ pending # <<>>
    /\ \E i \in DOMAIN syn_list :
           /\ syn_list[i].w # last.w_before[i]
           /\ elig[i] > 0
           /\ pre_tr[i] > 0
           /\ post_tr[i] > 0

\* the latest spike of the synapse's pre neuron came at an earlier tick than
\* the latest spike of its post neuron
PreThenPost(i) ==
    /\ spiked_at[syn_list[i].pre] # <<>>
    /\ spiked_at[syn_list[i].post] # <<>>
    /\ spiked_at[syn_list[i].pre][1] < spiked_at[syn_list[i].post][1]

----------------------------------------------------------------------------
(* Properties of a network of more than 2^16 neurons, under SpecBig *)

\* C8: currents added for two distinct (bin, neuron) pairs are kept apart:
\* every table entry holds exactly the currents added for its own pair, and
\* a step integrates for each neuron exactly what was added for it.
C8_KeyIsolation ==
    /\ PendingIsLedger
    /\ Stepped => \A n \in Ids : last.i_in[n] = last.led_in[n]

----------------------------------------------------------------------------
(* Properties of the coordinator, under SpecIO *)

\* C9: a binding's decoder is read out only after a spike was routed to it,
\* and with t0 the time of the first spike routed to it since binding or the
\* last reset, its k-th readout since then is at a poll time t >= t0 + k * P.
C9_ReadoutCadence ==
    \A b \in DOMAIN outputs :
        /\ readouts[b] # <<>> => first_spike[b] # None
        /\ \A k \in DOMAIN readouts[b] :
               readouts[b][k] >= first_spike[b][1] + k * outputs[b].readout_period_ms
        /\ first_spike[b] = None => outputs[b].next_readout_at = None
        /\ first_spike[b] # None =>
               outputs[b].next_readout_at =
                   Some(first_spike[b][1]
                        + (Len(readouts[b]) + 1) * outputs[b].readout_period_ms)

\* a poll that made a binding's second readout, its first spike having come
\* at a time t0 > 0
C9_Witness ==
    /\ io_last.op = "maybe_emit_actions"
    /\ \E b \in io_last.read :
           /\ Len(readouts[b]) >= 2
           /\ first_spike[b] # None
           /\ first_spike[b][1] > 0

\* C10: two consecutive readouts of a binding are at least P apart.
C10_MinimumPeriod ==
    \A b \in DOMAIN outputs :
        \A k \in DOMAIN readouts[b] :
            k > 1 => readouts[b][k] - readouts[b][k - 1] >= outputs[b].readout_period_ms

\* C31: reset calls decoder.reset() once for every output binding and sets
\* every next_readout_at to None, leaving the bindings' ports, source ids and
\* periods, the routing table and the input bindings as they were; a readout
\* is made only on a binding that a spike was routed to since the last reset,
\* and not before one period after the first such spike.
C31_ResetFrame ==
    [][/\ io_last'.op = "reset" =>
              /\ DOMAIN io_last'.resets = DOMAIN outputs
              /\ \A i \in DOMAIN outputs : io_last'.resets[i] = 1
              /\ outputs' = [i \in DOMAIN outputs |->
                                [outputs[i] EXCEPT !.next_readout_at = None]]
              /\ route' = route
              /\ inputs' = inputs
       /\ io_last'.op = "maybe_emit_actions" =>
              \A b \in io_last'.read :
                  /\ first_spike[b] # None
                  /\ io_last'.t >= first_spike[b][1] + outputs[b].readout_period_ms]_vars

\* a reset that cleared the schedule of a binding while two bindings exist
C31_Witness ==
    /\ io_last.op = "reset"
    /\ io_last.cleared # {}
    /\ Len(outputs) = 2

\* C13: encode_observations(t) calls the encoder of an input binding exactly
\* once iff the binding's port is a key of env.observe(t), in binding order,
\* whatever ports are missing, and yields the concatenation of what the
\* called encoders yield.
C13_MissingPortSkipped ==
    LET e == enc_last.encoded
    IN  enc_last.op = "encode_observations" =>
        /\ \A i \in DOMAIN inputs :
               Count(e, i) = IF inputs[i].port \in enc_last.obs THEN 1 ELSE 0
        /\ \A j, k \in DOMAIN e : j < k => e[j] < e[k]
        /\ Len(enc_last.stream) =
               SumOver([j \in DOMAIN e |-> Len(inputs[e[j]].yields)], DOMAIN e)
        /\ \A j \in DOMAIN e : \A n \in DOMAIN inputs[e[j]].yields :
               enc_last.stream[
                   SumOver([k \in DOMAIN e |-> Len(inputs[e[k]].yields)],
                           {k \in DOMAIN e : k < j}) + n]
               = inputs[e[j]].yields[n]

\* a call in which a binding with a missing port stands before a binding
\* whose encoder was called and yielded spikes
C13_Witness ==
    \E i, j \in DOMAIN inputs :
        /\ enc_last.op = "encode_observations"
        /\ i < j
        /\ inputs[i].port \notin enc_last.obs
        /\ inputs[j].port \in enc_last.obs
        /\ inputs[j].yields # <<>>
        /\ enc_last.stream # <<>>

\* C11: in every on_output_spike(t, id), each binding whose source_ids
\* contains id gets exactly one decoder.on_spike(t, id) call and every other
\* binding gets none, whatever sequence of ids the binding was made with.
C11_RoutingComplete ==
    io_last.op = "on_output_spike" =>
        \A b \in DOMAIN outputs :
            io_last.on_spike[b] =
                IF io_last.nid \in outputs[b].source_ids THEN 1 ELSE 0

\* C38: in every on_output_spike(t, id), a binding whose decoder gets an
\* on_spike call has id among its source_ids; a binding that does not have
\* id among its source_ids gets no call and keeps its next_readout_at, so a
\* spike of a neuron no binding listens to calls no decoder and starts no
\* readout schedule.
C38_RoutingSound ==
    [][io_last'.op = "on_output_spike" =>
          /\ outputs' # outputs =>
                 \E b \in DOMAIN outputs : io_last'.nid \in outputs[b].source_ids
          /\ \A b \in DOMAIN outputs :
                 /\ io_last'.on_spike[b] > 0 =>
                        io_last'.nid \in outputs[b].source_ids
                 /\ io_last'.nid \notin outputs[b].source_ids =>
                        /\ io_last'.on_spike[b] = 0
                        /\ outputs'[b] = outputs[b]
                        /\ first_spike'[b] = first_spike[b]]_vars

\* a spike of a neuron that no binding listens to, while a binding exists
\* whose readout schedule is still unset
C38_Witness ==
    /\ io_last.op = "on_output_spike"
    /\ outputs # <<>>
    /\ \A b \in DOMAIN outputs :
           /\ io_last.nid \notin outputs[b].source_ids
           /\ outputs[b].next_readout_at = None

\* C12: the mapping maybe_emit_actions(t) returns has a key p iff some binding
\* of port p was due and its decoder returned a value, and every binding
\* that was due and returned a value finds its own value under its port.
C12_PortIsolation ==
    io_last.op = "maybe_emit_actions" =>
        /\ DOMAIN io_last.actions =
               {outputs[b].port : b \in io_last.read \ io_last.nulls}
        /\ \A b \in io_last.read \ io_last.nulls :
               io_last.actions[outputs[b].port] = b

----------------------------------------------------------------------------
(* Properties of Runtime.tick, under SpecTick *)

TickDone == tick_pc = "idle" /\ tick_n > 0

\* the positions of tick_log that hold a call of this name
Calls(e) == {i \in DOMAIN tick_log : tick_log[i].e = e}

\* C14: in every tick goal.evaluate is called exactly once, also when no
\* action was emitted, and net.apply_reward is called exactly once iff the
\* returned r is not 0.
C14_GoalEveryTick ==
    TickDone =>
        /\ Cardinality(Calls("evaluate")) = 1
        /\ Cardinality(Calls("apply_reward")) = IF tick_r # 0 THEN 1 ELSE 0

\* the place of a call in the order of the phases of a tick
Rank(e) ==
    CASE e = "encode" -> 0
      [] e = "inject" -> 1
      [] e = "step" -> 2
      [] e = "on_spike" -> 3
      [] e = "readout" -> 4
      [] e = "apply_action" -> 5
      [] e = "evaluate" -> 6
      [] e = "apply_reward" -> 7

C16_ActionIffNonNull ==
    /\ Calls("readout") = {} => Calls("apply_action") = {}
    /\ \A i \in Calls("readout") :
           IF tick_action # None
           THEN Calls("apply_action") = {i + 1}
           ELSE Calls("apply_action") = {}

\* a finished tick, not the first, whose readout returned an action
C16_Witness ==
    /\ TickDone
    /\ tick_n >= 2
    /\ tick_action # None
    /\ Calls("apply_action") # {}

----------------------------------------------------------------------------
(* Properties of the population layout, under SpecCore *)

\* C25: when every declared size is positive, each population starts at the
\* sum of the sizes declared before it, the id ranges are pairwise disjoint
\* and together are exactly 0 .. total - 1, and the network build() makes has
\* total neurons.
C25_Layout ==
    (\A i \in DOMAIN order : order[i].size > 0) =>
        /\ \A i \in DOMAIN order : order[i].start = SumSizes(SubSeq(order, 1, i - 1))
        /\ \A i, j \in DOMAIN order :
               i # j => PopIds(order[i]) \cap PopIds(order[j]) = {}
        /\ UNION {PopIds(order[i]) : i \in DOMAIN order} = 0 .. (SumSizes(order) - 1)
        /\ net # None => net[1].num_neurons = SumSizes(order)

\* a network built from two populations of positive sizes, the first of
\* them larger than one neuron
C25_Witness ==
    /\ net # None
    /\ Len(order) >= 2
    /\ \A i \in DOMAIN order : order[i].size > 0
    /\ order[1].size = 2
    /\ net[1].num_neurons = 3

\* C26: add_population raises once the network exists, dense and
\* lateral_inhibition raise while it does not, build raises when it exists;
\* a call that raises leaves the layout, the network and its synapses as
\* they were; a network once built keeps its size.
C26_Lifecycle ==
    [][/\ (core_last'.op = "add_population" /\ net # None) => core_last'.raised
       /\ (core_last'.op \in {"dense", "lateral_inhibition"} /\ net = None) =>
              core_last'.raised
       /\ (core_last'.op = "build" /\ net # None) => core_last'.raised
       /\ core_last'.raised => (pops' = pops /\ order' = order /\ net' = net)
       /\ net # None =>
              (net' # None /\ net'[1].num_neurons = net[1].num_neurons
               /\ Len(net'[1].syn_list) >= Len(net[1].syn_list))]_vars

\* a second build that raised on a network that already has synapses
C26_Witness ==
    /\ core_last.op = "build"
    /\ core_last.raised
    /\ net # None
    /\ net[1].syn_list # <<>>

\* C33: a lateral_inhibition(pop, w_inh, delay_ms) call on a built core
\* appends size * (size - 1) synapses to the store and leaves those already
\* there in place; the new ones are exactly one per ordered pair of distinct
\* ids of pop, each non-plastic, of weight w_inh and of the given delay.
C33_LateralInhibition ==
    [][(core_last'.op = "lateral_inhibition" /\ ~core_last'.raised) =>
          LET old == net[1].syn_list
              new == net'[1].syn_list
              p == core_last'.pop
              added == (Len(old) + 1) .. Len(new)
          IN  /\ Len(new) = Len(old) + p.size * (p.size - 1)
              /\ SubSeq(new, 1, Len(old)) = old
              /\ net'[1].num_neurons = net[1].num_neurons
              /\ \A i, j \in PopIds(p) :
                     i # j =>
                         Cardinality({k \in added :
                                         new[k].pre = i /\ new[k].post = j}) = 1
              /\ \A k \in added :
                     /\ new[k].pre \in PopIds(p)
                     /\ new[k].post \in PopIds(p)
                     /\ new[k].pre # new[k].post
                     /\ ~new[k].plastic
                     /\ new[k].w = core_last'.w
                     /\ new[k].delay_ms = core_last'.delay_ms]_vars

\* a lateral_inhibition on a population of two neurons of a core that
\* already had a synapse
C33_Witness ==
    /\ core_last.op = "lateral_inhibition"
    /\ ~core_last.raised
    /\ core_last.pop.size = 2
    /\ Len(net[1].syn_list) > 2

\* C27: an add_population with a registered name raises, and the name map
\* and the order list hold the same populations, one per name.
C27_DuplicateRejected ==
    /\ (core_last.op = "add_population" /\ core_last.dup) => core_last.raised
    /\ \A i \in DOMAIN order : pops[order[i].name] = order[i]
    /\ \A i, j \in DOMAIN order : i # j => order[i].name # order[j].name

\* C30: no population of non-positive size is ever laid out and no network
\* of non-positive size is ever built.
C30_ConfigValidated ==
    /\ \A i \in DOMAIN order : order[i].size > 0
    /\ net # None => net[1].num_neurons > 0

----------------------------------------------------------------------------
(* Properties of a caller that passes the id N, under SpecIds *)

\* C28: no id outside 0 .. N-1 is ever held by the pending table, the
\* synapse store or the routing table, and no step fails on such an id.
C28_IdsRejected ==
    /\ \A k \in DOMAIN pending : KeyNid(k) \in Ids
    /\ \A i \in DOMAIN syn_list : syn_list[i].pre \in Ids /\ syn_list[i].post \in Ids
    /\ DOMAIN route \subseteq Ids
    /\ last.op # "step_raised"

----------------------------------------------------------------------------
(* Properties of a caller whose times may go back, under SpecBack *)

Abs(x) == IF x >= 0 THEN x ELSE -x

\* exp(-dt / tau_ms) rounded to 1/FX, for the dt (in 1/TU ms) of this caller
\* and the two time constants of PlasticityConfig
ExpNeg(dt, tau_ms) ==
    CASE dt = 0 -> 1000
      [] dt = 2 /\ tau_ms = 200 -> 995
      [] dt = 2 /\ tau_ms = 300 -> 997

\* C35: a step at time t that comes dt >= 0 after the previous step and in
\* which neither the pre nor the post neuron of a plastic synapse spikes
\* multiplies the synapse's pre and post trace by exp(-dt / tau_trace_ms)
\* and its eligibility by exp(-dt / tau_elig_ms), once; with a non-empty
\* store the step sets t_last to t.
C35_TraceDecay ==
    [][(last'.op = "step" /\ last'.t >= clock /\ syn_list # <<>>) =>
          /\ t_last' = last'.t
          /\ \A i \in DOMAIN syn_list :
                 (/\ syn_list[i].plastic
                  /\ syn_list[i].pre \notin Range(last'.spikes)
                  /\ syn_list[i].post \notin Range(last'.spikes)) =>
                     LET dt == last'.t - clock
                     IN  /\ pre_tr'[i] = FxMul(pre_tr[i], ExpNeg(dt, tau_trace_ms))
                         /\ post_tr'[i] = FxMul(post_tr[i], ExpNeg(dt, tau_trace_ms))
                         /\ elig'[i] = FxMul(elig[i], ExpNeg(dt, tau_elig_ms))]_vars

\* a step one millisecond after the previous one in which no neuron spiked
\* while a plastic synapse had a non-zero pre trace, which it decayed
C35_Witness ==
    /\ Stepped
    /\ last.dt = 1 * TU
    /\ last.spikes = <<>>
    /\ \E i \in DOMAIN syn_list :
           /\ syn_list[i].plastic
           /\ last.pre_tr[i] > 0
           /\ pre_tr[i] < last.pre_tr[i]

\* C29: no step runs with a negative t - t_last, and in a step in which
\* neither the pre nor the post neuron of a plastic synapse spikes, the
\* magnitudes of its traces and of its eligibility do not grow.
C29_BackwardRejected ==
    Stepped =>
        /\ last.dt >= 0
        /\ \A i \in DOMAIN syn_list :
               (/\ syn_list[i].plastic
                /\ syn_list[i].pre \notin Range(last.spikes)
                /\ syn_list[i].post \notin Range(last.spikes)) =>
                   /\ Abs(pre_tr[i]) <= Abs(last.pre_tr[i])
                   /\ Abs(post_tr[i]) <= Abs(last.post_tr[i])
                   /\ Abs(elig[i]) <= Abs(last.elig[i])

----------------------------------------------------------------------------
(* Properties of a caller that resets, under SpecReset *)

\* C32: after a reset every neuron is at v_rest with the far-past refractory
\* sentinel, the pending table is empty and every trace and eligibility is
\* zero.
C32_NetworkReset ==
    last.op = "reset" =>
        /\ \A n \in Ids : neurons[n] = [v |-> v_rest, ref_until |-> RefSentinel]
        /\ DOMAIN pending = {}
        /\ \A i \in DOMAIN syn_list :
               pre_tr[i] = 0 /\ post_tr[i] = 0 /\ elig[i] = 0

----------------------------------------------------------------------------
(* Properties of the single-neuron scenario, under SpecS1 *)

\* the current was injected at every bin of S1InjectBins up to the last
\* stepped one
S1Fed ==
    /\ Stepped
    /\ injected = Cardinality({b \in S1InjectBins : b <= last.now_bin})

\* C34 as stated: fed 0.2 at every bin, the neuron is silent before bin 9,
\* spikes at bin 9 and is silent at bin 10.
C34_S1SpikeAtNine ==
    S1Fed =>
        /\ last.now_bin # 9 => last.spikes = <<>>
        /\ last.now_bin = 9 => last.spikes = <<0>>

\* C34 amended: fed 0.2 at every bin, the neuron spikes at no bin of 0..10;
\* its potential rises at every fed bin and stays below r_m * 0.2, and its
\* refractory period is never started.
C34_S1Silent ==
    S1Fed =>
        /\ last.spikes = <<>>
        /\ neurons[0].v > 0
        /\ neurons[0].v < RoundDiv(r_m * 200, FX)
        /\ neurons[0].ref_until = RefSentinel
        /\ last.refractory = {}

\* the step of bin 10 of a run that was fed at every bin 0..9
C34_Witness ==
    /\ S1Fed
    /\ last.now_bin = 10
    /\ injected = 10

----------------------------------------------------------------------------
(* Properties of the reward of a tick on the screen, under SpecScreen *)

\* C40: when the action applied in a tick moved the cursor, the reward of the
\* tick is the goal's value on the frame as it was before the action and the
\* frame after it, and neither that reward nor the demo loop's is the -1.0
\* of "did not move".
C40_RealTransition ==
    (env_last.op = "goal" /\ env_last.applied
        /\ env_last.cursor_before # env_last.cursor_after)
    => /\ env_last.r = evaluate(env_last.frame_before, frame)
       /\ env_last.r # -1 * FX
       /\ env_last.demo_r # -1 * FX

====
